---- MODULE Spec2Model ----
(***************************************************************************)
(* Controller substrate of the build controllers: the dedup FIFO, the      *)
(* retry-governed work loop (RetryController + QueueRetryManager) and the  *)
(* retry policies the build controller factory configures                  *)
(* (pkg/build/controller/factory/factory.go).                              *)
(*                                                                         *)
(* pkg/controller (RetryController, QueueRetryManager) and the cache       *)
(* package (FIFO, DeltaFIFO, Reflector) are not among the source files;    *)
(* they are modelled from sections 4.1-4.5 of the specification.           *)
(***************************************************************************)
EXTENDS Integers, Sequences, FiniteSets, TLC

\* ------------------------------------------------------------------ bounds

\* Object keys (namespace/name) the controllers see.
Keys == {"a"}

\* Highest resource version the remote store hands out per key.
MaxVersion == 2

\* The clock advances in steps of TickMinutes. Up to MaxTime it is kept as it
\* is; from there on every timestamp is moved back instead, so that an elapsed
\* time of MaxTime stands for MaxTime or more.
MaxTime == 40
TickMinutes == 10

\* Executions of the give-up body counted per episode (the counter saturates).
GiveUpCap == 2

\* Keys and versions per key where the queues are driven directly.
QKeys == {"a", "b"}
MaxQVersion == 3

\* Resource versions the remote store behind the Reflector hands out, and the
\* Lists the Reflector makes.
MaxRV == 3
MaxLists == 2

\* Backend views of the token store, and tokens created.
MaxViews == 3
MaxTokens == 1

\* Longest list a delete ListWatcher gets from the API.
MaxListed == 2

\* Longest list of diagnostics, and most warnings or errors one Check reports.
MaxDiags == 2
MaxFindings == 1

\* ------------------------------------------------------- program constants

\* etcd.go:67, the quorum NewREST gives its ClusterObserver
observeQuorum == 1

\* etcd.go:70, 5*time.Second, in seconds
observeTimeout == 5

\* factory.go:31
maxRetries == 60

\* factory.go:94, 30*time.Minute, in minutes
maxTimeout == 30

\* Retry.Count is counted up to here and then stays. retryFunc never lets it
\* pass maxRetries + 1; limitedLogAndRetry does not read it.
BuildCountCap == 2
CountCap(p) == IF p = "Build" THEN BuildCountCap ELSE maxRetries + 1

\* ------------------------------------------------------------------ values

Policies == {"Build", "BuildPod", "ImageStream", "BuildConfig"}

\* Errors a Handle can return: message text (a sequence of characters) and class.
ErrPlain == [nil |-> FALSE, msg |-> <<"e", "r">>, class |-> "plain"]
ErrImageFatal == [nil |-> FALSE, msg |-> <<"F", ".">>, class |-> "ImageChangeControllerFatalError"]
ErrConfigFatal == [nil |-> FALSE, msg |-> <<"f">>, class |-> "BuildConfigFatal"]
NoErr == [nil |-> TRUE, msg |-> <<>>, class |-> "plain"]
Errors == {ErrPlain, ErrImageFatal, ErrConfigFatal}

\* A Handle that panics: it returns no error value; msg is the panic's value.
Panic == [nil |-> TRUE, msg |-> <<"p">>, class |-> "panic"]

\* A worker boundary that recovers from the panic and goes on as after a success.
Contain_AsSuccess(out) == IF out.class = "panic" THEN NoErr ELSE out

\* The worker boundary: a panic becomes a regular error of the item.
Contain(out) ==
    IF out.class = "panic" THEN [nil |-> FALSE, msg |-> out.msg, class |-> "panic"] ELSE out

\* Outcomes of BuildUpdater.Update.
UpdateResults == {"ok", "NotFound", "Error"}

Upper(c) == CASE c = "e" -> "E" [] c = "f" -> "F" [] c = "p" -> "P" [] OTHER -> c

\* errors.ErrorToSentence: capitalise the first letter, end with a period.
ErrorToSentence(msg) ==
    IF Len(msg) = 0 THEN msg
    ELSE LET cap == <<Upper(Head(msg))>> \o Tail(msg)
         IN IF cap[Len(cap)] = "." THEN cap ELSE Append(cap, ".")

\* completed: Status.CompletionTimestamp is set.
NewStatus == [phase |-> "New", reason |-> "", message |-> <<>>, completed |-> FALSE]

Min(x, y) == IF x < y THEN x ELSE y
Occurrences(q, k) == Cardinality({i \in DOMAIN q : q[i] = k})
Max(x, y) == IF x > y THEN x ELSE y

\* The sequences that list each key of some subset of S once.
Snapshots(S) ==
    UNION {{q \in [1..Cardinality(T) -> T] : \A i, j \in DOMAIN q : q[i] = q[j] => i = j} :
           T \in SUBSET S}

KeyLess(x, y) == x = "a" /\ y = "b"

Without(f, k) == [j \in DOMAIN f \ {k} |-> f[j]]
With(f, k, v) == [j \in DOMAIN f \cup {k} |-> IF j = k THEN v ELSE f[j]]

VARIABLES
    policy,     \* which factory built the controller
    fifo,       \* the FIFO store: [items: key -> object, queue: sequence of keys]
    retries,    \* QueueRetryManager.retries: key -> Retry
    now,        \* wall clock, minutes
    pc,         \* the worker: "pop" (blocked in Pop) or "handle" (holds cur)
    cur,        \* the object the worker popped
    remote,     \* key -> last resource version the remote store assigned
    persisted,  \* key -> build status stored by BuildUpdater.Update
    hist,       \* key -> history of the key's current episode
    last,       \* history: what the last handleOne decided
    adds,       \* history: key -> values given to the FIFO since the key was last absent
    order,      \* history: queued keys in the order of their first enqueue
    popped,     \* what the last Pop on the FIFO returned
    lister,     \* the KeyListerGetter given to the DeltaFIFO
    dfifo,      \* the DeltaFIFO: [items: key -> Deltas, queue: sequence of keys]
    known,      \* the consumer's local store: key -> version
    log,        \* the remote store's change events, event i at resource version i
    rstate,     \* the remote store: key -> version, 0 when the key is absent
    rpc,        \* the Reflector: "list" (about to list) or "watch" (streaming)
    cursor,     \* the Reflector's watch cursor (a resource version)
    listed,     \* history: the resource versions the Reflector listed at
    call,       \* history: the last call the Reflector made on the store
    yielded,    \* history: key -> the deltas popped for the key so far
    lw,         \* the ListWatcher behind the Reflector: "plain" or "buildDeleteLW"
    delivered,  \* history: key -> the Delete calls made on the DeltaFIFO for the key
    options,    \* the MasterConfig fields newControllerPlug reads
    plug,       \* the controller plug (lease gate): [open, started]
    handler,    \* the outcomes the domain Handle of this controller can have
    ocfg,       \* the authorize-token store: [backends, observer] as NewREST built it
    etcd,       \* [committed: version written to storage, visible: view -> version seen]
    obs,        \* the running ObserveResourceVersion: [target, reported, elapsed, result]
    created,    \* what REST.Create returned: "none", "pending", "ok" or "error"
    sreq,       \* CreateBuildPod's input: the build and what its strategy returns
    sres,       \* CreateBuildPod's result
    areq,       \* Admit's input: the request and what the caches and clients answer
    ares,       \* Admit's result
    nmode,      \* pod admission: "test" (TestPodAdmission runs) or "free" (one Admit)
    nrow,       \* TestPodAdmission: the rows of the table run so far
    ncache,     \* the project cache's default node selector (a selector string)
    nproj,      \* the project's node-selector annotation: [present, value]
    npod,       \* pod.Spec.NodeSelector: label key -> value
    nres,       \* podNodeEnvironment.Admit's result: [done, err, before]
    pcfg,       \* pruneDeploymentConfig: [Confirm]
    pstatus,    \* deployment -> its deployment status
    pcands,     \* the prune candidates, in the order PruneTask visits them
    ppos,       \* the candidates PruneTask has handed to the prune function
    pstop,      \* PruneTask has returned an error
    pworld,     \* [rcs, pods, out, calls]: the cluster, the table written, the client calls
    pstart,     \* history: the deployer pods at the start, pod -> deployment
    lkind,      \* the delete ListWatcher called: "buildDeleteLW" or "buildPodDeleteLW"
    litems,     \* what its first List call returns: the pods, or the builds
    lfail,      \* whether that first List call fails
    lstore,     \* lw.store: the controller's DeltaFIFO
    lres,       \* the ListWatcher's List result: [done, err, list, before]
    hreq,       \* the build controller's Handle: [build, herr, upd], the build popped,
                \* what HandleBuild returns and what BuildUpdater.Update answers
    hres,       \* what Handle returned and did: [done, err, obj, pers, updated, event]
    dlist,      \* DiagnosticsOptions.Run: the diagnostics it is given
    dpos,       \* the diagnostics its loop has been through
    dcount,     \* [warnCount, errorCount]
    dlog,       \* history: per diagnostic gone through, [checked, warns, errs]
    dret        \* what Run returned: [done, failed, warnCount, errorCount]

\* History of the calls made on the FIFO, kept where the FIFO is driven directly.
fifoHist == <<adds, order, popped>>

\* The DeltaFIFO, its Reflector and the remote store behind it.
deltaVars == <<lister, dfifo, known, log, rstate, rpc, cursor, listed, call, yielded,
               lw, delivered>>

\* The controller plug and the handler the work loop is built with.
loopVars == <<options, plug, handler>>

\* The authorize-token store and its observer; CreateBuildPod; Admit.
observeVars == <<ocfg, etcd, obs, created>>
strategyVars == <<sreq, sres>>
admitVars == <<areq, ares>>
\* Pod node-selector admission.
nodeVars == <<nmode, nrow, ncache, nproj, npod, nres>>
\* The deployments prune command.
pruneVars == <<pcfg, pstatus, pcands, ppos, pstop, pworld, pstart>>
\* A delete ListWatcher called on its own.
listVars == <<lkind, litems, lfail, lstore, lres>>
\* The build controller's Handle called on its own.
handleVars == <<hreq, hres>>
\* DiagnosticsOptions.Run.
diagVars == <<dlist, dpos, dcount, dlog, dret>>
toolVars == <<nodeVars, pruneVars, listVars, handleVars, diagVars>>
restVars == <<observeVars, strategyVars, admitVars, toolVars>>

\* The FIFO, the work loop and their histories.
fifoVarsOnly == <<policy, fifo, retries, now, pc, cur, remote, persisted, hist, last, fifoHist>>

vars == <<policy, fifo, retries, now, pc, cur, remote, persisted, hist, last, fifoHist,
          deltaVars, loopVars, restVars>>

\* ------------------------------------------------------------- FIFO (4.2)

EmptyFIFO == [items |-> <<>>, queue |-> <<>>]

\* Add that gives an updated key a new slot at the tail.
FIFOAdd_NewSlot(f, obj) ==
    [items |-> With(f.items, obj.key, obj),
     queue |-> Append(SelectSeq(f.queue, LAMBDA j : j # obj.key), obj.key)]

\* Add / Update: a queued key keeps its slot and takes the new value.
FIFOAdd(f, obj) ==
    [items |-> With(f.items, obj.key, obj),
     queue |-> IF obj.key \in DOMAIN f.items THEN f.queue ELSE Append(f.queue, obj.key)]

\* AddIfNotPresent that stores the object, as Add does.
FIFOAddIfNotPresent_Overwrite(f, obj) == FIFOAdd(f, obj)

\* AddIfNotPresent: a queued key is left alone.
FIFOAddIfNotPresent(f, obj) ==
    IF obj.key \in DOMAIN f.items THEN f ELSE FIFOAdd(f, obj)

\* Pop: the object of the longest-waiting key; the key leaves the queue.
FIFOPopKey(f) == Head(f.queue)
FIFOPop(f) == [items |-> Without(f.items, Head(f.queue)), queue |-> Tail(f.queue)]

\* Delete: the key leaves the queue; a key that is not queued is left alone.
FIFODelete(f, k) ==
    IF k \notin DOMAIN f.items THEN f
    ELSE [items |-> Without(f.items, k), queue |-> SelectSeq(f.queue, LAMBDA j : j # k)]

\* Replace: the queue becomes the snapshot, in the snapshot's order.
FIFOReplace(f, objs) ==
    [items |-> [k \in {objs[i].key : i \in DOMAIN objs} |->
                  (CHOOSE o \in {objs[i] : i \in DOMAIN objs} : o.key = k)],
     queue |-> [i \in DOMAIN objs |-> objs[i].key]]

\* -------------------------------------------------------- DeltaFIFO (4.3)

EmptyDeltaFIFO == [items |-> <<>>, queue |-> <<>>]

\* The key's pending Deltas.
Pending(f, k) == IF k \in DOMAIN f.items THEN f.items[k] ELSE <<>>

\* keyListerGetter.ListKeys: no keys.
keyListerGetter_ListKeys == {}

\* GetByKey that reports every key as unknown.
keyListerGetter_GetByKey_Unknown(k) == [obj |-> 0, exists |-> FALSE]

\* keyListerGetter.GetByKey: a fake object, and true.
keyListerGetter_GetByKey(k) == [obj |-> 0, exists |-> TRUE]

\* The KeyListerGetter of the DeltaFIFO: keyListerGetter, or a store that
\* answers from its contents.
ListKeys(l, kn) == IF l = "keyListerGetter" THEN keyListerGetter_ListKeys ELSE DOMAIN kn
GetByKey(l, kn, k) ==
    IF l = "keyListerGetter" THEN keyListerGetter_GetByKey(k)
    ELSE [obj |-> IF k \in DOMAIN kn THEN kn[k] ELSE 0, exists |-> k \in DOMAIN kn]

\* queueAction that puts the new delta in front of the key's list.
queueAction_Prepend(f, d) ==
    [items |-> With(f.items, d.key, <<d>> \o Pending(f, d.key)),
     queue |-> IF d.key \in DOMAIN f.items THEN f.queue ELSE Append(f.queue, d.key)]

\* Append a delta to its key's list; a key with a new list joins the tail.
queueAction(f, d) ==
    [items |-> With(f.items, d.key, Append(Pending(f, d.key), d)),
     queue |-> IF d.key \in DOMAIN f.items THEN f.queue ELSE Append(f.queue, d.key)]

DeltaAdd(f, obj) == queueAction(f, [type |-> "Added", key |-> obj.key, ver |-> obj.ver])
DeltaUpdate(f, obj) == queueAction(f, [type |-> "Updated", key |-> obj.key, ver |-> obj.ver])

\* Delete: queued unless the key is neither known to the lister nor pending.
DeltaDelete(f, obj, l, kn) ==
    IF ~GetByKey(l, kn, obj.key).exists /\ obj.key \notin DOMAIN f.items THEN f
    ELSE queueAction(f, [type |-> "Deleted", key |-> obj.key, ver |-> obj.ver])

EndsDeleted(ds) == ds # <<>> /\ ds[Len(ds)].type = "Deleted"

RECURSIVE SyncAll(_, _)
SyncAll(f, objs) ==
    IF objs = <<>> THEN f
    ELSE SyncAll(queueAction(f, [type |-> "Sync", key |-> Head(objs).key,
                                 ver |-> Head(objs).ver]), Tail(objs))

\* DeleteMissing that reports a deletion even when one is already pending.
RECURSIVE DeleteMissing_Always(_, _, _, _)
DeleteMissing_Always(f, ks, l, kn) ==
    IF ks = <<>> THEN f
    ELSE DeleteMissing_Always(
             queueAction(f, [type |-> "Deleted", key |-> Head(ks),
                             ver |-> GetByKey(l, kn, Head(ks)).obj]),
             Tail(ks), l, kn)

\* A Deleted delta, carrying the lister's last state, for each key of ks whose
\* newest pending delta is not a Deleted one already.
RECURSIVE DeleteMissing(_, _, _, _)
DeleteMissing(f, ks, l, kn) ==
    IF ks = <<>> THEN f
    ELSE DeleteMissing(
             IF EndsDeleted(Pending(f, Head(ks))) THEN f
             ELSE queueAction(f, [type |-> "Deleted", key |-> Head(ks),
                                  ver |-> GetByKey(l, kn, Head(ks)).obj]),
             Tail(ks), l, kn)

\* The lister's keys that the snapshot objs lacks.
Missing(objs, l, kn) == ListKeys(l, kn) \ {objs[i].key : i \in DOMAIN objs}

\* Replace: a Sync delta per object of the snapshot, then the deletions of the
\* lister's keys the snapshot lacks, visited in the order ks.
DeltaReplace(f, objs, ks, l, kn) == DeleteMissing(SyncAll(f, objs), ks, l, kn)

\* buildDeleteLW.List that finds the orphaned pods and queues nothing.
buildDeleteLW_List_NoDelete(f, orphans, l, kn) == f

\* buildDeleteLW.List: a store.Delete of a bare build (name and namespace, no
\* resource version) for every pod whose build is gone, in the order the
\* pods are listed; the list returned to the Reflector is empty.
RECURSIVE buildDeleteLW_List(_, _, _, _)
buildDeleteLW_List(f, orphans, l, kn) ==
    IF orphans = <<>> THEN f
    ELSE buildDeleteLW_List(DeltaDelete(f, [key |-> Head(orphans), ver |-> 0], l, kn),
                            Tail(orphans), l, kn)

\* Pop: the whole list of the longest-waiting key.
DeltaPopKey(f) == Head(f.queue)
DeltaPop(f) == [items |-> Without(f.items, Head(f.queue)), queue |-> Tail(f.queue)]

\* The consumer's store after it has processed the deltas in order.
RECURSIVE Process(_, _)
Process(kn, ds) ==
    IF ds = <<>> THEN kn
    ELSE Process(IF Head(ds).type = "Deleted" THEN Without(kn, Head(ds).key)
                 ELSE With(kn, Head(ds).key, Head(ds).ver), Tail(ds))

\* ------------------------------------------------------- retry policies

\* retryFunc(kind, isFatal): fatal errors and exhausted counts are not retried.
IsFatal(p, err) ==
    CASE p = "ImageStream" -> err.class = "ImageChangeControllerFatalError"
      [] p = "BuildConfig" -> err.class = "BuildConfigFatal"
      [] OTHER -> FALSE

\* retryFunc without the isFatal test.
retryFunc_NoFatalTest(p, err, r) ==
    IF r.Count > maxRetries THEN FALSE ELSE TRUE

retryFunc(p, err, r) ==
    IF IsFatal(p, err) THEN FALSE
    ELSE IF r.Count > maxRetries THEN FALSE
    ELSE TRUE

\* The status limitedLogAndRetry writes once the window is over.
FailedStatus(err) ==
    [phase |-> "Failed", reason |-> "ExceededRetryTimeout",
     message |-> ErrorToSentence(err.msg), completed |-> TRUE]

\* limitedLogAndRetry that drops the build whatever Update returned.
limitedLogAndRetry_DropOnUpdateError(build, err, r, t, upd, pers) ==
    IF t - r.StartTimestamp < maxTimeout
    THEN [retry |-> TRUE, obj |-> build, gaveUp |-> FALSE, upd |-> "none", pers |-> pers]
    ELSE LET failed == [build EXCEPT !.status = FailedStatus(err)]
         IN [retry |-> FALSE, obj |-> failed, gaveUp |-> TRUE, upd |-> upd,
             pers |-> IF upd = "ok" THEN failed.status ELSE pers]

\* limitedLogAndRetry(buildupdater, maxTimeout): the answer, the build as left in
\* memory, whether the give-up body ran and what Update stored.
limitedLogAndRetry(build, err, r, t, upd, pers) ==
    IF t - r.StartTimestamp < maxTimeout
    THEN [retry |-> TRUE, obj |-> build, gaveUp |-> FALSE, upd |-> "none", pers |-> pers]
    ELSE LET failed == [build EXCEPT !.status = FailedStatus(err)]
         IN [retry |-> IF upd = "ok" THEN FALSE ELSE upd # "NotFound",
             obj |-> failed, gaveUp |-> TRUE, upd |-> upd,
             pers |-> IF upd = "ok" THEN failed.status ELSE pers]

\* The error of a failed BuildUpdater.Update.
ErrUpdate == [nil |-> FALSE, msg |-> <<"u">>, class |-> "plain"]

\* Handle that returns the error of the status update when that one failed.
BuildHandle_ReturnsUpdateError(build, herr, upd, pers) ==
    IF herr.nil \/ build.status.message = ErrorToSentence(herr.msg)
    THEN [obj |-> build, pers |-> pers, updated |-> FALSE, event |-> FALSE, err |-> herr]
    ELSE LET b == [build EXCEPT
                     !.status.reason = IF build.status.reason = "" THEN "Error" ELSE @,
                     !.status.message = ErrorToSentence(herr.msg)]
         IN [obj |-> b, pers |-> IF upd = "ok" THEN b.status ELSE pers, updated |-> TRUE,
             event |-> TRUE, err |-> IF upd = "ok" THEN herr ELSE ErrUpdate]

\* The build controller's Handle: HandleBuild, then the status message update
\* and the event; the error returned is HandleBuild's.
BuildHandle(build, herr, upd, pers) ==
    IF herr.nil \/ build.status.message = ErrorToSentence(herr.msg)
    THEN [obj |-> build, pers |-> pers, updated |-> FALSE, event |-> FALSE, err |-> herr]
    ELSE LET b == [build EXCEPT
                     !.status.reason = IF build.status.reason = "" THEN "Error" ELSE @,
                     !.status.message = ErrorToSentence(herr.msg)]
         IN [obj |-> b, pers |-> IF upd = "ok" THEN b.status ELSE pers, updated |-> TRUE,
             event |-> TRUE, err |-> herr]

\* The builds Handle is called on: with and without a reason, with no status
\* message, with the sentence of ErrPlain, with another message.
HandleStatuses ==
    [phase : {"New", "Running"}, reason : {"", "Custom"},
     message : {<<>>, ErrorToSentence(ErrPlain.msg), <<"o", ".">>}, completed : {FALSE}]
HandleRequests ==
    [build : [key : {"a"}, ver : {1}, status : HandleStatuses],
     herr : {NoErr} \cup Errors, upd : UpdateResults]

NoHandleResult ==
    [done |-> FALSE, err |-> NoErr, obj |-> [key |-> "a", ver |-> 1, status |-> NewStatus],
     pers |-> NewStatus, updated |-> FALSE, event |-> FALSE]
NoHandle ==
    /\ hreq = [build |-> [key |-> "a", ver |-> 1, status |-> NewStatus], herr |-> NoErr,
               upd |-> "ok"]
    /\ hres = NoHandleResult

\* ------------------------------------ ClusterObserver (4.6) and NewREST

NoObserver == [installed |-> FALSE, views |-> 0, quorum |-> 0, timeout |-> 0]

\* observe.NewClusterObserver(versioner, watchers, quorum), and the timeout its
\* ObserveResourceVersion is called with.
NewClusterObserver(n, k, t) == [installed |-> TRUE, views |-> n, quorum |-> k, timeout |-> t]

\* NewREST whose observer wants every backend.
NewREST_QuorumAll(backends) ==
    IF backends > 0 THEN NewClusterObserver(backends, backends, observeTimeout) ELSE NoObserver

\* NewREST that leaves AfterCreate unset.
NewREST_NoAfterCreate(backends) == NoObserver

\* NewREST(s, backends...): with backends, AfterCreate observes the created
\* token's resource version on them, one backend being enough, for 5 seconds.
NewREST(backends) ==
    IF backends > 0 THEN NewClusterObserver(backends, observeQuorum, observeTimeout)
    ELSE NoObserver

NoObs == [target |-> 0, reported |-> {}, elapsed |-> 0, result |-> "none"]

\* -------------------------------------------- typeBasedFactoryStrategy

BuildNames == {"b1", "b2"}

\* A build as CreateBuildPod reads it: its name and which strategies are set.
Builds ==
    [name : BuildNames, DockerStrategy : BOOLEAN, SourceStrategy : BOOLEAN,
     CustomStrategy : BOOLEAN]

\* A pod: nil, or its Annotations (a nil map, or a map) and the strategy that
\* made it.
NilPod == [isNil |-> TRUE, by |-> "none", annNil |-> TRUE, ann |-> <<>>]
Pods ==
    {NilPod} \cup
    [isNil : {FALSE}, by : {"none"}, annNil : {TRUE}, ann : {<<>>}] \cup
    [isNil : {FALSE}, by : {"none"}, annNil : {FALSE},
     ann : {<<>>, [build |-> "old"], [other |-> "x"]}]

\* What a strategy's CreateBuildPod returns.
StrategyResults == [pod : Pods, err : BOOLEAN]

\* The strategy the switch picks: the first of Docker, Source, Custom that is set.
Chosen(build) ==
    IF build.DockerStrategy THEN "Docker"
    ELSE IF build.SourceStrategy THEN "Source"
    ELSE IF build.CustomStrategy THEN "Custom"
    ELSE "none"

\* pod.Annotations[buildapi.BuildAnnotation] = build.Name, on a map made if nil.
SetAnnotation(pod, name) ==
    IF pod.isNil THEN pod
    ELSE [pod EXCEPT !.annNil = FALSE,
                     !.ann = With(IF pod.annNil THEN <<>> ELSE pod.ann, "build", name)]

\* CreateBuildPod that returns the strategy's pod as it got it.
CreateBuildPod_NoAnnotation(build, made) ==
    IF Chosen(build) = "none"
    THEN [pod |-> NilPod, err |-> TRUE, calls |-> <<>>]
    ELSE [pod |-> IF made.pod.isNil THEN NilPod ELSE [made.pod EXCEPT !.by = Chosen(build)],
          err |-> made.err, calls |-> <<Chosen(build)>>]

\* typeBasedFactoryStrategy.CreateBuildPod(build); made is what the strategy it
\* delegates to returns. calls: the strategies called, in order.
CreateBuildPod(build, made) ==
    IF Chosen(build) = "none"
    THEN [pod |-> NilPod, err |-> TRUE, calls |-> <<>>]
    ELSE [pod |-> IF made.pod.isNil THEN NilPod
                  ELSE SetAnnotation([made.pod EXCEPT !.by = Chosen(build)], build.name),
          err |-> made.err, calls |-> <<Chosen(build)>>]

NoPodResult == [done |-> FALSE, pod |-> NilPod, err |-> FALSE, calls |-> <<>>]
NoStrategy ==
    /\ sreq = [build |-> [name |-> "b1", DockerStrategy |-> FALSE, SourceStrategy |-> FALSE,
                          CustomStrategy |-> FALSE],
               made |-> [pod |-> NilPod, err |-> FALSE]]
    /\ sres = NoPodResult

\* ------------------------------------------ namespace lifecycle admission

\* part_002:258
numRetries == 10

\* part_002:201
recommendedCreatableResources == {"resourceaccessreviews", "localresourceaccessreviews"}

Resources ==
    {"builds", "resourceaccessreviews", "ResourceAccessReviews",
     "localresourceaccessreviews", "subjectaccessreviews", "localsubjectaccessreviews"}

\* strings.ToLower on the resource names above.
ToLower(r) == IF r = "ResourceAccessReviews" THEN "resourceaccessreviews" ELSE r

\* Which re-read of the namespace fails: none, the first, the second.
RegetFailures == {0, 1, 2}

\* How often Associate fails before it succeeds.
AssociateFailures == {0, 1, numRetries - 1, numRetries}

\* A request and its surroundings as Admit sees them.
\*   mapper:  what latest.RESTMapper says of the resource: "unknown" (no version
\*            and kind), "nomapping" (RESTMapping fails), "root" or "namespaced"
\*   running: ProjectCache.Running()
\*   phase:   the namespace in the project cache: "missing", or its phase
\*   assocFails, regetFailsAt: the Associate calls that fail first, and which
\*            Namespaces().Get after a failed Associate fails (0: none)
Requests ==
    [namespace : {"", "ns"}, resource : Resources,
     operation : {"CREATE", "UPDATE", "DELETE", "CONNECT"},
     mapper : {"unknown", "nomapping", "root", "namespaced"},
     running : BOOLEAN, phase : {"missing", "Active", "Terminating"},
     assocFails : AssociateFailures, regetFailsAt : RegetFailures]

isSubjectAccessReview(a) ==
    a.resource = "subjectaccessreviews" \/ a.resource = "localsubjectaccessreviews"

\* The retry loop that goes on to the next Associate when the re-read of the
\* namespace failed.
RECURSIVE AssociateLoop_IgnoresReget(_, _, _)
AssociateLoop_IgnoresReget(retry, fails, regetFailsAt) ==
    IF retry > fails THEN [forbidden |-> FALSE, calls |-> retry, regets |-> retry - 1]
    ELSE IF retry = numRetries THEN [forbidden |-> TRUE, calls |-> retry, regets |-> retry - 1]
    ELSE AssociateLoop_IgnoresReget(retry + 1, fails, regetFailsAt)

\* The retry loop around projectutil.Associate, from pass retry on: whether it
\* ends in Forbidden, the Associate calls made and the Namespaces().Get calls
\* made.
RECURSIVE AssociateLoop(_, _, _)
AssociateLoop(retry, fails, regetFailsAt) ==
    IF retry > fails THEN [forbidden |-> FALSE, calls |-> retry, regets |-> retry - 1]
    ELSE IF retry = numRetries THEN [forbidden |-> TRUE, calls |-> retry, regets |-> retry - 1]
    ELSE IF regetFailsAt = retry THEN [forbidden |-> TRUE, calls |-> retry, regets |-> retry]
    ELSE AssociateLoop(retry + 1, fails, regetFailsAt)

\* The terminating test that lets every resource through.
TerminatingForbidden_Never(a) == FALSE

\* A terminating namespace takes nothing new but the creatable resources.
TerminatingForbidden(a) ==
    a.phase = "Terminating" /\ ToLower(a.resource) \notin recommendedCreatableResources

Allowed == [err |-> "nil", associates |-> 0, regets |-> 0]
Forbidden == [err |-> "forbidden", associates |-> 0, regets |-> 0]

\* lifecycle.Admit(a).
Admit(a) ==
    IF a.namespace = "" THEN Allowed
    ELSE IF isSubjectAccessReview(a) THEN Allowed
    ELSE IF a.mapper = "unknown" THEN Allowed
    ELSE IF a.mapper = "nomapping" THEN Forbidden
    ELSE IF a.mapper # "namespaced" THEN Allowed
    ELSE IF a.operation = "DELETE" THEN Allowed
    ELSE IF ~a.running THEN Forbidden
    ELSE IF a.phase = "missing" THEN Forbidden
    ELSE IF a.operation # "CREATE" THEN Allowed
    ELSE IF TerminatingForbidden(a) THEN Forbidden
    ELSE LET l == AssociateLoop(1, a.assocFails, a.regetFailsAt)
         IN [err |-> IF l.forbidden THEN "forbidden" ELSE "nil", associates |-> l.calls,
             regets |-> l.regets]

NoVerdict == [done |-> FALSE, err |-> "nil", associates |-> 0, regets |-> 0]
NoAdmit ==
    /\ areq = [namespace |-> "", resource |-> "builds", operation |-> "CREATE",
               mapper |-> "unknown", running |-> FALSE, phase |-> "missing",
               assocFails |-> 0, regetFailsAt |-> 0]
    /\ ares = NoVerdict

\* ------------------------------------------- pod node-selector admission

\* A selector string is the sequence of its tokens: label keys and values,
\* "=", "," and blanks. The strings of TestPodAdmission's table:
SelNone == <<>>
SelInfraFalseSp == <<"infra", " ", "=", " ", "false">>
SelInfraTrue == <<"infra", "=", "true">>
SelEnvTestSp == <<"env", " ", "=", " ", "test">>
SelEnvDev == <<"env", "=", "dev">>
SelInfraFalseEnvTest == <<"infra", "=", "false", ",", " ", "env", " ", "=", " ", "test">>
SelectorStrings ==
    {SelNone, SelInfraFalseSp, SelInfraTrue, SelEnvTestSp, SelEnvDev, SelInfraFalseEnvTest}

\* A label map: key -> value.
NoLabels == <<>>
Label(k, v) == With(NoLabels, k, v)
PodSelectors ==
    {NoLabels, Label("env", "test"), Label("infra", "false"), Label("infra", "true"),
     With(Label("env", "dev"), "color", "blue")}

\* labelselector.Parse: blanks dropped, one key=value requirement per comma.
RECURSIVE ParseRequirements(_)
ParseRequirements(s) ==
    IF Len(s) < 3 THEN NoLabels
    ELSE With(ParseRequirements(SubSeq(s, 5, Len(s))), s[1], s[3])
Parse(s) == ParseRequirements(SelectSeq(s, LAMBDA t : t # " "))

\* labelselector.Conflicts and labelselector.Merge.
Conflicts(a, b) == \E k \in DOMAIN a \cap DOMAIN b : a[k] # b[k]
Merge(a, b) == [k \in DOMAIN a \cup DOMAIN b |-> IF k \in DOMAIN b THEN b[k] ELSE a[k]]

NoAnnotation == [present |-> FALSE, value |-> SelNone]
Annotations == {NoAnnotation} \cup [present : {TRUE}, value : SelectorStrings]

\* GetNodeSelectorMap that falls back to the default for an empty annotation.
GetNodeSelectorMap_EmptyIsDefault(default, ann) ==
    IF ann.present /\ ann.value # SelNone THEN Parse(ann.value) ELSE Parse(default)

\* ProjectCache.GetNodeSelectorMap: the project's annotation when it has one,
\* the cache's default selector otherwise.
GetNodeSelectorMap(default, ann) ==
    IF ann.present THEN Parse(ann.value) ELSE Parse(default)

\* podNodeEnvironment.Admit on the Create of a pod: the error, and the pod's
\* node selector afterwards.
podNodeEnvironment_Admit(default, ann, pod) ==
    LET projectNodeSelector == GetNodeSelectorMap(default, ann)
    IN IF Conflicts(projectNodeSelector, pod) THEN [err |-> TRUE, pod |-> pod]
       ELSE [err |-> FALSE, pod |-> Merge(projectNodeSelector, pod)]

\* The table of TestPodAdmission.
tests ==
    << [defaultNodeSelector |-> SelNone, projectNodeSelector |-> SelNone,
        podNodeSelector |-> NoLabels, mergedNodeSelector |-> NoLabels,
        ignoreProjectNodeSelector |-> TRUE, admit |-> TRUE],
       [defaultNodeSelector |-> SelInfraFalseSp, projectNodeSelector |-> SelNone,
        podNodeSelector |-> NoLabels, mergedNodeSelector |-> Label("infra", "false"),
        ignoreProjectNodeSelector |-> TRUE, admit |-> TRUE],
       [defaultNodeSelector |-> SelNone, projectNodeSelector |-> SelInfraFalseSp,
        podNodeSelector |-> NoLabels, mergedNodeSelector |-> Label("infra", "false"),
        ignoreProjectNodeSelector |-> FALSE, admit |-> TRUE],
       [defaultNodeSelector |-> SelInfraFalseSp, projectNodeSelector |-> SelNone,
        podNodeSelector |-> NoLabels, mergedNodeSelector |-> NoLabels,
        ignoreProjectNodeSelector |-> FALSE, admit |-> TRUE],
       [defaultNodeSelector |-> SelInfraFalseSp, projectNodeSelector |-> SelInfraTrue,
        podNodeSelector |-> NoLabels, mergedNodeSelector |-> Label("infra", "true"),
        ignoreProjectNodeSelector |-> FALSE, admit |-> TRUE],
       [defaultNodeSelector |-> SelInfraFalseSp, projectNodeSelector |-> SelInfraTrue,
        podNodeSelector |-> Label("env", "test"),
        mergedNodeSelector |-> With(Label("infra", "true"), "env", "test"),
        ignoreProjectNodeSelector |-> FALSE, admit |-> TRUE],
       [defaultNodeSelector |-> SelEnvTestSp, projectNodeSelector |-> SelInfraTrue,
        podNodeSelector |-> Label("infra", "false"),
        mergedNodeSelector |-> Label("infra", "false"),
        ignoreProjectNodeSelector |-> FALSE, admit |-> FALSE],
       [defaultNodeSelector |-> SelEnvDev, projectNodeSelector |-> SelInfraFalseEnvTest,
        podNodeSelector |-> With(Label("env", "dev"), "color", "blue"),
        mergedNodeSelector |-> With(Label("env", "dev"), "color", "blue"),
        ignoreProjectNodeSelector |-> FALSE, admit |-> FALSE] >>

NoNodeResult == [done |-> FALSE, err |-> FALSE, before |-> NoLabels]
NoNode ==
    /\ nmode = "free"
    /\ nrow = 0
    /\ ncache = SelNone
    /\ nproj = NoAnnotation
    /\ npod = NoLabels
    /\ nres = NoNodeResult

\* ------------------------------------------------ prune deployments

Deployments == {"d1", "d2"}
DeployerPods == {"p1", "p2"}
DeploymentStatuses == {"Complete", "Failed"}

\* Candidate lists: deployments in any order, none twice.
Candidates == {<<>>, <<"d1">>, <<"d2">>, <<"d1", "d2">>, <<"d2", "d1">>}

\* The deployer pods in the cluster: pod -> the deployment its labels name,
\* "none" for a pod that does not exist.
PodOwners == [DeployerPods -> Deployments \cup {"none"}]

\* What the client calls of one prune function call answer: whether Pods.List
\* works, the pods whose Delete fails, whether the controller's Delete works.
PruneFaults == [list : BOOLEAN, podFail : SUBSET DeployerPods, rc : BOOLEAN]

ClientCall(op, on, ok) == [op |-> op, on |-> on, ok |-> ok]

\* describingPruneDeploymentFunc: one line of the table.
describingPruneDeploymentFunc(w, d) == [w EXCEPT !.out = Append(@, d)]

\* Pods.List with the deployer pod selector of d, and a Delete per pod listed.
DeleteDeployerPods(w, d, f) ==
    IF ~f.list THEN [w EXCEPT !.calls = Append(@, ClientCall("ListPods", d, FALSE))]
    ELSE LET deployers == SelectSeq(<<"p1", "p2">>, LAMBDA q : w.pods[q] = d)
         IN [w EXCEPT
               !.calls = (Append(@, ClientCall("ListPods", d, TRUE))) \o
                         [i \in DOMAIN deployers |->
                             ClientCall("DeletePod", deployers[i], deployers[i] \notin f.podFail)],
               !.pods = [q \in DeployerPods |->
                            IF w.pods[q] = d /\ q \notin f.podFail THEN "none" ELSE w.pods[q]]]

\* The prune function of --confirm: the line, the deployer pods of a failed
\* deployment, then the replication controller; its error is the one of the
\* controller's Delete.
confirmedPruneDeploymentFunc(w, d, status, f) ==
    LET w1 == describingPruneDeploymentFunc(w, d)
        w2 == IF status = "Failed" THEN DeleteDeployerPods(w1, d, f) ELSE w1
    IN [w |-> [w2 EXCEPT !.calls = Append(@, ClientCall("DeleteRC", d, f.rc)),
                         !.rcs = IF f.rc THEN @ \ {d} ELSE @],
        err |-> ~f.rc]

\* The switch on cfg.Confirm.
deploymentPruneFunc(confirm, w, d, status, f) ==
    IF confirm THEN confirmedPruneDeploymentFunc(w, d, status, f)
    ELSE [w |-> describingPruneDeploymentFunc(w, d), err |-> FALSE]

NoPrune ==
    /\ pcfg = [Confirm |-> FALSE]
    /\ pstatus = [d \in Deployments |-> "Complete"]
    /\ pcands = <<>>
    /\ ppos = 0
    /\ pstop = FALSE
    /\ pworld = [rcs |-> {}, pods |-> [q \in DeployerPods |-> "none"], out |-> <<>>,
                 calls |-> <<>>]
    /\ pstart = [q \in DeployerPods |-> "none"]

\* ------------------------------------------- the delete ListWatchers

Namespaces == {"n1", "n2"}
BuildLabels == {"", "x", "y"}

\* cache.MetaNamespaceKeyFunc
MetaNamespaceKeyFunc(namespace, name) == <<namespace, name>>

\* buildutil.GetBuildPodName
GetBuildPodName(name) == CASE name = "x" -> "x-build"

\* A pod as listPods returns it, with what Builds(pod.Namespace).Get answers
\* for its build label: "found", "NotFound" or "Error".
ListedPods == [namespace : Namespaces, label : BuildLabels, get : {"found", "NotFound", "Error"}]

\* A build as Builds.List returns it, with what Pods(build.Namespace).Get
\* answers for its build pod, and the build label of the pod found.
PodGets ==
    [get : {"found"}, label : BuildLabels]
        \cup {[get |-> "NotFound", label |-> ""], [get |-> "Error", label |-> ""]}
ListedBuilds == [namespace : Namespaces, name : {"x"}, complete : BOOLEAN, pod : PodGets]

SeqsUpTo(S, n) == UNION {[1..m -> S] : m \in 0..n}

\* The loop of buildDeleteLW.List that takes a pod's empty build label for a
\* build name.
RECURSIVE buildDeleteLW_Orphans_AnyLabel(_)
buildDeleteLW_Orphans_AnyLabel(pods) ==
    IF pods = <<>> THEN [err |-> FALSE, orphans |-> <<>>]
    ELSE LET pod == Head(pods)
         IN IF pod.get = "Error" THEN [err |-> TRUE, orphans |-> <<>>]
            ELSE LET rest == buildDeleteLW_Orphans_AnyLabel(Tail(pods))
                 IN [err |-> rest.err,
                     orphans |-> (IF pod.get = "NotFound"
                                  THEN <<MetaNamespaceKeyFunc(pod.namespace, pod.label)>>
                                  ELSE <<>>) \o rest.orphans]

\* The loop of buildDeleteLW.List: the builds to report deleted, in the order
\* of the pods, up to the pod whose Get fails with another error than
\* NotFound, which ends List with that error.
RECURSIVE buildDeleteLW_Orphans(_)
buildDeleteLW_Orphans(pods) ==
    IF pods = <<>> THEN [err |-> FALSE, orphans |-> <<>>]
    ELSE LET pod == Head(pods)
         IN IF pod.label = "" THEN buildDeleteLW_Orphans(Tail(pods))
            ELSE IF pod.get = "Error" THEN [err |-> TRUE, orphans |-> <<>>]
            ELSE LET rest == buildDeleteLW_Orphans(Tail(pods))
                 IN [err |-> rest.err,
                     orphans |-> (IF pod.get = "NotFound"
                                  THEN <<MetaNamespaceKeyFunc(pod.namespace, pod.label)>>
                                  ELSE <<>>) \o rest.orphans]

\* buildDeleteLW.List as a whole on the store of CreateDeleteController:
\* listPods, the loop with its store.Delete calls, and the list returned
\* ("nil" with an error).
buildDeleteLW_ListPods(f, fail, pods) ==
    IF fail THEN [err |-> TRUE, list |-> "nil", store |-> f]
    ELSE LET w == buildDeleteLW_Orphans(pods)
         IN [err |-> w.err, list |-> IF w.err THEN "nil" ELSE <<>>,
             store |-> buildDeleteLW_List(f, w.orphans, "keyListerGetter", <<>>)]

\* Whether buildPodDeleteLW.List takes the build's pod for gone.
PodGone(build) ==
    build.pod.get = "NotFound" \/ (build.pod.get = "found" /\ build.pod.label # build.name)

\* The loop of buildPodDeleteLW.List that accepts any pod of the right name.
RECURSIVE buildPodDeleteLW_Orphans_IgnoreLabel(_)
buildPodDeleteLW_Orphans_IgnoreLabel(builds) ==
    IF builds = <<>> THEN [err |-> FALSE, orphans |-> <<>>]
    ELSE LET build == Head(builds)
         IN IF build.complete THEN buildPodDeleteLW_Orphans_IgnoreLabel(Tail(builds))
            ELSE IF build.pod.get = "Error" THEN [err |-> TRUE, orphans |-> <<>>]
            ELSE LET rest == buildPodDeleteLW_Orphans_IgnoreLabel(Tail(builds))
                 IN [err |-> rest.err,
                     orphans |-> (IF build.pod.get = "NotFound"
                                  THEN <<MetaNamespaceKeyFunc(build.namespace,
                                                              GetBuildPodName(build.name))>>
                                  ELSE <<>>) \o rest.orphans]

\* The loop of buildPodDeleteLW.List: the build pods to report deleted.
RECURSIVE buildPodDeleteLW_Orphans(_)
buildPodDeleteLW_Orphans(builds) ==
    IF builds = <<>> THEN [err |-> FALSE, orphans |-> <<>>]
    ELSE LET build == Head(builds)
         IN IF build.complete THEN buildPodDeleteLW_Orphans(Tail(builds))
            ELSE IF build.pod.get = "Error" THEN [err |-> TRUE, orphans |-> <<>>]
            ELSE LET rest == buildPodDeleteLW_Orphans(Tail(builds))
                 IN [err |-> rest.err,
                     orphans |-> (IF PodGone(build)
                                  THEN <<MetaNamespaceKeyFunc(build.namespace,
                                                              GetBuildPodName(build.name))>>
                                  ELSE <<>>) \o rest.orphans]

\* store.Delete of a bare pod (name and namespace) for each key of orphans.
RECURSIVE DeleteEach(_, _)
DeleteEach(f, orphans) ==
    IF orphans = <<>> THEN f
    ELSE DeleteEach(DeltaDelete(f, [key |-> Head(orphans), ver |-> 0], "keyListerGetter", <<>>),
                    Tail(orphans))

\* buildPodDeleteLW.List as a whole.
buildPodDeleteLW_List(f, fail, builds) ==
    IF fail THEN [err |-> TRUE, list |-> "nil", store |-> f]
    ELSE LET w == buildPodDeleteLW_Orphans(builds)
         IN [err |-> w.err, list |-> IF w.err THEN "nil" ELSE <<>>,
             store |-> DeleteEach(f, w.orphans)]

\* The stores List is called on: empty, or with deltas of a build of n1 or of
\* its build pod already waiting.
ListStores ==
    {EmptyDeltaFIFO,
     queueAction(EmptyDeltaFIFO,
                 [type |-> "Deleted", key |-> MetaNamespaceKeyFunc("n1", "x"), ver |-> 1]),
     queueAction(EmptyDeltaFIFO,
                 [type |-> "Sync", key |-> MetaNamespaceKeyFunc("n1", "x-build"), ver |-> 1])}

NoListResult == [done |-> FALSE, err |-> FALSE, list |-> "nil", before |-> EmptyDeltaFIFO]
NoList ==
    /\ lkind = "buildDeleteLW"
    /\ litems = <<>>
    /\ lfail = FALSE
    /\ lstore = EmptyDeltaFIFO
    /\ lres = NoListResult

\* ------------------------------------------------ DiagnosticsOptions.Run

\* A diagnostic as Run meets it:
\*   canRun:  what CanRun does: "yes", "no" or "panic"
\*   check:   what Check does: "returns" or "panics"
\*   after:   what follows Check's return: "ok", "panicInLogs" (r.Logs or
\*            LogEntry panics, before anything is counted) or "panicInErrors"
\*            (r.Errors panics, the warnings already counted)
\*   warnings, errors: len(r.Warnings()) and len(r.Errors())
Diag(canRun, check, after, w, e) ==
    [canRun |-> canRun, check |-> check, after |-> after, warnings |-> w, errors |-> e]
Diagnostics ==
    {Diag("no", "returns", "ok", 0, 0), Diag("panic", "returns", "ok", 0, 0),
     Diag("yes", "panics", "ok", 0, 0), Diag("yes", "returns", "panicInLogs", 0, 0)}
        \cup {Diag("yes", "returns", "panicInErrors", w, 0) : w \in 0..MaxFindings}
        \cup {Diag("yes", "returns", "ok", w, e) : w \in 0..MaxFindings, e \in 0..MaxFindings}

Panics(d) == d.canRun = "panic" \/ (d.canRun = "yes" /\ (d.check = "panics" \/ d.after # "ok"))

\* The loop body of Run in which a recovered panic is logged but not counted.
RunDiagnostic_PanicUncounted(d, c) ==
    IF d.canRun = "panic" THEN [count |-> c, checked |-> FALSE]
    ELSE IF d.canRun = "no" THEN [count |-> c, checked |-> FALSE]
    ELSE IF d.check = "panics" \/ d.after = "panicInLogs" THEN [count |-> c, checked |-> TRUE]
    ELSE IF d.after = "panicInErrors"
    THEN [count |-> [c EXCEPT !.warnCount = @ + d.warnings], checked |-> TRUE]
    ELSE [count |-> [warnCount |-> c.warnCount + d.warnings,
                     errorCount |-> c.errorCount + d.errors], checked |-> TRUE]

\* The loop body of Run on diagnostic d with the counts c: the counts after
\* it, and whether Check was called. The deferred recover adds one error.
RunDiagnostic(d, c) ==
    IF d.canRun = "panic" THEN [count |-> [c EXCEPT !.errorCount = @ + 1], checked |-> FALSE]
    ELSE IF d.canRun = "no" THEN [count |-> c, checked |-> FALSE]
    ELSE IF d.check = "panics" \/ d.after = "panicInLogs"
    THEN [count |-> [c EXCEPT !.errorCount = @ + 1], checked |-> TRUE]
    ELSE IF d.after = "panicInErrors"
    THEN [count |-> [warnCount |-> c.warnCount + d.warnings, errorCount |-> c.errorCount + 1],
          checked |-> TRUE]
    ELSE [count |-> [warnCount |-> c.warnCount + d.warnings,
                     errorCount |-> c.errorCount + d.errors], checked |-> TRUE]

NoCount == [warnCount |-> 0, errorCount |-> 0]
NoReturn == [done |-> FALSE, failed |-> FALSE, warnCount |-> 0, errorCount |-> 0]
NoDiag ==
    /\ dlist = <<>>
    /\ dpos = 0
    /\ dcount = NoCount
    /\ dlog = <<>>
    /\ dret = NoReturn

\* The tools that stand apart from the controllers, not in use.
NoTools == NoNode /\ NoPrune /\ NoList /\ NoHandle /\ NoDiag

\* The token store without backends, before any Create.
NoObserve ==
    /\ ocfg = [oauth |-> TRUE, backends |-> 0, observer |-> NoObserver]
    /\ etcd = [committed |-> 0, visible |-> <<>>]
    /\ obs = NoObs
    /\ created = "none"

NoRest == NoObserve /\ NoStrategy /\ NoAdmit /\ NoTools

\* ------------------------------------------------------ the controller plug

\* The MasterConfig fields newControllerPlug reads.
MasterConfigs == [ControllerLeaseTTL : {0, 10}, PauseControllers : BOOLEAN]

\* newControllerPlug that ignores PauseControllers.
newControllerPlug_IgnorePause(o) ==
    IF o.ControllerLeaseTTL > 0
    THEN [kind |-> "leased", open |-> FALSE, started |-> FALSE]
    ELSE [kind |-> "plug", open |-> TRUE, started |-> FALSE]

\* newControllerPlug(options, client): a leased plug, closed until its Run holds
\* the lease, or a plain plug that is open unless PauseControllers is set.
\* started: Start was called on the plug since it was built.
newControllerPlug(o) ==
    IF o.ControllerLeaseTTL > 0
    THEN [kind |-> "leased", open |-> FALSE, started |-> FALSE]
    ELSE [kind |-> "plug", open |-> ~o.PauseControllers, started |-> FALSE]

\* A master that runs its controllers: no lease, not paused.
DefaultConfig == [ControllerLeaseTTL |-> 0, PauseControllers |-> FALSE]

\* ------------------------------------------------------------- the model

\* The DeltaFIFO side at rest.
NoCall == [op |-> "none", key |-> "a", ver |-> 0]
NoDelta ==
    /\ lister = "store" /\ dfifo = EmptyDeltaFIFO /\ known = <<>> /\ log = <<>>
    /\ rstate = <<>> /\ rpc = "list" /\ cursor = 0 /\ listed = <<>>
    /\ call = NoCall /\ yielded = <<>>
    /\ lw = "plain" /\ delivered = <<>>

\* The work loop at rest, with its plug open.
NoLoop ==
    /\ options = DefaultConfig
    /\ plug = newControllerPlug(options)
    /\ handler = {NoErr} \cup Errors

\* History of a key's current episode: failed attempts and executions of the
\* give-up body since the key's Retry state was created.
NoHist == [attempts |-> 0, giveUps |-> 0, panicked |-> FALSE]

\* What the last handleOne decided; cleared by the next Pop.
NoLast == [key |-> "a", decision |-> "none", elapsed |-> 0, count |-> 0,
           upd |-> "none", err |-> NoErr]

Init ==
    /\ policy \in Policies
    /\ fifo = EmptyFIFO
    /\ retries = <<>>
    /\ now = 0
    /\ pc = "pop"
    /\ cur = [key |-> "a", ver |-> 0, status |-> NewStatus]
    /\ remote = [k \in Keys |-> 0]
    /\ persisted = [k \in Keys |-> NewStatus]
    /\ hist = [k \in Keys |-> NoHist]
    /\ last = NoLast
    /\ adds = <<>> /\ order = <<>> /\ popped = <<>>
    /\ NoDelta
    /\ NoLoop
    /\ NoRest

\* Time passes.
Tick ==
    /\ IF now + TickMinutes <= MaxTime
       THEN /\ now' = now + TickMinutes
            /\ UNCHANGED retries
       ELSE /\ now' = now
            /\ retries' = [k \in DOMAIN retries |->
                             [retries[k] EXCEPT !.StartTimestamp = Max(@ - TickMinutes, 0)]]
    /\ UNCHANGED <<policy, fifo, pc, cur, remote, persisted, hist, last, fifoHist, deltaVars, loopVars, restVars>>

\* The Reflector delivers a new version of k (an Added or Modified event).
ReflectorAdd(k) ==
    /\ remote[k] < MaxVersion
    /\ remote' = [remote EXCEPT ![k] = @ + 1]
    /\ fifo' = FIFOAdd(fifo, [key |-> k, ver |-> remote[k] + 1, status |-> persisted[k]])
    /\ UNCHANGED <<policy, retries, now, pc, cur, persisted, hist, last, fifoHist, deltaVars, loopVars, restVars>>

\* RetryController.Run: wait for the plug to be open, then Queue.Pop().
Pop ==
    /\ plug.open
    /\ pc = "pop"
    /\ fifo.queue # <<>>
    /\ cur' = fifo.items[FIFOPopKey(fifo)]
    /\ fifo' = FIFOPop(fifo)
    /\ pc' = "handle"
    /\ last' = NoLast
    /\ UNCHANGED <<policy, retries, now, remote, persisted, hist, fifoHist, deltaVars, loopVars, restVars>>

\* QueueRetryManager.Retry(resource, err) as a record of what it leaves behind.
\* u2 is the outcome of the Update the give-up makes (build controller only).
Retry(resource, err, u2, pers) ==
    LET k == resource.key
        fresh == k \notin DOMAIN retries
        tries == IF fresh THEN [Count |-> 0, StartTimestamp |-> now] ELSE retries[k]
        ans == IF policy = "Build"
               THEN limitedLogAndRetry(resource, err, tries, now, u2, pers)
               ELSE [retry |-> retryFunc(policy, err, tries), obj |-> resource,
                     gaveUp |-> ~retryFunc(policy, err, tries), upd |-> "none",
                     pers |-> pers]
        h == IF fresh THEN NoHist ELSE hist[k]
    IN [fifo |-> IF ans.retry THEN FIFOAddIfNotPresent(fifo, ans.obj) ELSE fifo,
        retries |-> IF ans.retry
                    THEN With(retries, k, [tries EXCEPT !.Count = Min(@ + 1, CountCap(policy))])
                    ELSE Without(retries, k),
        pers |-> ans.pers,
        hist |-> [attempts |-> Min(h.attempts + 1, CountCap(policy) + 1),
                  giveUps |-> IF ans.gaveUp THEN Min(h.giveUps + 1, GiveUpCap) ELSE h.giveUps,
                  panicked |-> h.panicked \/ err.class = "panic"],
        last |-> [key |-> k,
                  decision |-> IF ans.retry THEN "retry" ELSE "giveup",
                  elapsed |-> now - tries.StartTimestamp,
                  count |-> tries.Count,
                  upd |-> ans.upd,
                  err |-> err]]

\* RetryController.handleOne(resource): Handle, then Retry on error, Forget on
\* success. A Handle that panics leaves the object as it was; the worker
\* turns the panic into an error of the item.
HandleOne ==
    /\ pc = "handle"
    /\ \E out \in handler, u1 \in UpdateResults, u2 \in UpdateResults :
         LET k == cur.key
             herr == Contain(out)
             h == IF policy = "Build" /\ out.class # "panic"
                  THEN BuildHandle(cur, herr, u1, persisted[k])
                  ELSE [obj |-> cur, pers |-> persisted[k], updated |-> FALSE,
                        event |-> FALSE, err |-> herr]
             r == Retry(h.obj, h.err, u2, h.pers)
         IN IF h.err.nil
            THEN /\ retries' = Without(retries, k)
                 /\ persisted' = [persisted EXCEPT ![k] = h.pers]
                 /\ last' = [NoLast EXCEPT !.key = k, !.decision = "success", !.err = out]
                 /\ UNCHANGED <<fifo, hist>>
            ELSE /\ retries' = r.retries
                 /\ persisted' = [persisted EXCEPT ![k] = r.pers]
                 /\ hist' = [hist EXCEPT ![k] = r.hist]
                 /\ last' = r.last
                 /\ fifo' = r.fifo
    /\ pc' = "pop"
    /\ UNCHANGED <<policy, now, cur, remote, fifoHist, deltaVars, loopVars, restVars>>

Next ==
    \/ Tick
    \/ \E k \in Keys : ReflectorAdd(k)
    \/ Pop
    \/ HandleOne

Spec == Init /\ [][Next]_vars

\* The worker loop runs forever (RetryController.Run): a worker that can pop
\* pops, and a Handle that was started returns. Time passes.
FairSpec == Spec /\ WF_vars(Tick) /\ WF_vars(Pop) /\ WF_vars(HandleOne)

\* The build controller alone (BuildControllerFactory.Create), its worker
\* running forever.
InitBuild == Init /\ policy = "Build"
FairSpecBuild ==
    InitBuild /\ [][Next]_vars /\ WF_vars(Tick) /\ WF_vars(Pop) /\ WF_vars(HandleOne)

\* ------------------------------------- the work loop behind its plug (4.5)

\* Two keys, a build controller whose Handle succeeds or panics, and a master
\* configuration of any kind. The clock stands still: the retry window is open.
InitLoop ==
    /\ policy = "Build"
    /\ fifo = EmptyFIFO
    /\ retries = <<>>
    /\ now = 0
    /\ pc = "pop"
    /\ cur = [key |-> "a", ver |-> 0, status |-> NewStatus]
    /\ remote = [k \in QKeys |-> 0]
    /\ persisted = [k \in QKeys |-> NewStatus]
    /\ hist = [k \in QKeys |-> NoHist]
    /\ last = NoLast
    /\ adds = <<>> /\ order = <<>> /\ popped = <<>>
    /\ NoDelta
    /\ options \in MasterConfigs
    /\ plug = newControllerPlug(options)
    /\ handler = {NoErr, Panic}
    /\ NoRest

\* plug.Start(): the lease was acquired, or an operator opened the plug.
PlugStart ==
    /\ ~plug.open
    /\ plug' = [plug EXCEPT !.open = TRUE, !.started = TRUE]
    /\ UNCHANGED <<policy, fifo, retries, now, pc, cur, remote, persisted, hist, last,
                   fifoHist, deltaVars, options, handler, restVars>>

\* plug.Stop(): the lease was lost, or an operator closed the plug.
PlugStop ==
    /\ plug.open
    /\ plug' = [plug EXCEPT !.open = FALSE]
    /\ UNCHANGED <<policy, fifo, retries, now, pc, cur, remote, persisted, hist, last,
                   fifoHist, deltaVars, options, handler, restVars>>

NextLoop ==
    \/ PlugStart
    \/ PlugStop
    \/ \E k \in QKeys : ReflectorAdd(k)
    \/ Pop
    \/ HandleOne

SpecLoop == InitLoop /\ [][NextLoop]_vars

\* ------------------------------------- the authorize-token store (4.6)

\* The queues and the work loop at rest.
NoQueue ==
    /\ fifo = EmptyFIFO /\ remote = <<>> /\ adds = <<>> /\ order = <<>> /\ popped = <<>>
    /\ policy = "Build" /\ retries = <<>> /\ now = 0 /\ pc = "pop"
    /\ cur = [key |-> "a", ver |-> 0]
    /\ persisted = <<>> /\ hist = <<>> /\ last = NoLast
    /\ NoDelta
    /\ NoLoop

\* The store NewREST builds over 0..MaxViews backends, or a ClusterObserver of
\* any quorum over 1..MaxViews views.
InitObserve ==
    /\ ocfg \in {[oauth |-> TRUE, backends |-> n, observer |-> NewREST(n)] : n \in 0..MaxViews}
               \cup {[oauth |-> FALSE, backends |-> n,
                      observer |-> NewClusterObserver(n, k, observeTimeout)] :
                        n \in 1..MaxViews, k \in 1..MaxViews}
    /\ ocfg.observer.quorum <= ocfg.backends
    /\ etcd = [committed |-> 0, visible |-> [i \in 1..ocfg.backends |-> 0]]
    /\ obs = NoObs
    /\ created = "none"
    /\ NoQueue
    /\ NoStrategy
    /\ NoAdmit
    /\ NoTools

\* REST.Create: the token is written to the storage; then AfterCreate, when
\* set, starts ObserveResourceVersion(token.ResourceVersion, timeout).
RESTCreate ==
    /\ created # "pending"
    /\ etcd.committed < MaxTokens
    /\ etcd' = [etcd EXCEPT !.committed = @ + 1]
    /\ IF ocfg.observer.installed
       THEN /\ obs' = [target |-> etcd.committed + 1, reported |-> {}, elapsed |-> 0,
                       result |-> "running"]
            /\ created' = "pending"
       ELSE /\ created' = "ok"
            /\ UNCHANGED obs
    /\ UNCHANGED <<ocfg, strategyVars, admitVars, fifoVarsOnly, deltaVars, loopVars, toolVars>>

\* The write reaches backend view i.
ViewCatchUp(i) ==
    /\ etcd.visible[i] < etcd.committed
    /\ etcd' = [etcd EXCEPT !.visible[i] = @ + 1]
    /\ UNCHANGED <<ocfg, obs, created, strategyVars, admitVars, fifoVarsOnly, deltaVars, loopVars, toolVars>>

\* The watcher on view i reports a version at or past the target. With the
\* quorum-th report ObserveResourceVersion returns nil, and so does Create.
ViewReport(i) ==
    /\ obs.result = "running"
    /\ i \notin obs.reported
    /\ etcd.visible[i] >= obs.target
    /\ LET rep == obs.reported \cup {i}
           met == Cardinality(rep) >= ocfg.observer.quorum
       IN /\ obs' = [obs EXCEPT !.reported = rep, !.result = IF met THEN "ok" ELSE @]
          /\ created' = IF met THEN "ok" ELSE created
    /\ UNCHANGED <<ocfg, etcd, strategyVars, admitVars, fifoVarsOnly, deltaVars, loopVars, toolVars>>

\* A second passes while ObserveResourceVersion waits; at the timeout it
\* returns an error, which Create returns. Nothing touches the storage.
ObserveTick ==
    /\ obs.result = "running"
    /\ LET out == obs.elapsed + 1 >= ocfg.observer.timeout
       IN /\ obs' = [obs EXCEPT !.elapsed = @ + 1, !.result = IF out THEN "timeout" ELSE @]
          /\ created' = IF out THEN "error" ELSE created
    /\ UNCHANGED <<ocfg, etcd, strategyVars, admitVars, fifoVarsOnly, deltaVars, loopVars, toolVars>>

NextObserve ==
    \/ RESTCreate
    \/ \E i \in 1..MaxViews : i <= ocfg.backends /\ ViewCatchUp(i)
    \/ \E i \in 1..MaxViews : i <= ocfg.backends /\ ViewReport(i)
    \/ ObserveTick

SpecObserve == InitObserve /\ [][NextObserve]_vars

\* --------------------------------------------------- CreateBuildPod alone

InitStrategy ==
    /\ sreq \in [build : Builds, made : StrategyResults]
    /\ sres = NoPodResult
    /\ NoQueue
    /\ NoObserve
    /\ NoAdmit
    /\ NoTools

\* The build controller asks for the build's pod.
CallCreateBuildPod ==
    /\ ~sres.done
    /\ LET r == CreateBuildPod(sreq.build, sreq.made)
       IN sres' = [done |-> TRUE, pod |-> r.pod, err |-> r.err, calls |-> r.calls]
    /\ UNCHANGED <<sreq, observeVars, admitVars, fifoVarsOnly, deltaVars, loopVars, toolVars>>

NextStrategy == CallCreateBuildPod

SpecStrategy == InitStrategy /\ [][NextStrategy]_vars

\* ------------------------------------------------------------ Admit alone

InitAdmit ==
    /\ areq \in Requests
    /\ ares = NoVerdict
    /\ NoQueue
    /\ NoObserve
    /\ NoStrategy
    /\ NoTools

\* The admission chain calls the lifecycle plug-in.
CallAdmit ==
    /\ ~ares.done
    /\ LET r == Admit(areq)
       IN ares' = [done |-> TRUE, err |-> r.err, associates |-> r.associates,
                   regets |-> r.regets]
    /\ UNCHANGED <<areq, observeVars, strategyVars, fifoVarsOnly, deltaVars, loopVars, toolVars>>

NextAdmit == CallAdmit

SpecAdmit == InitAdmit /\ [][NextAdmit]_vars

\* ----------------------------------------------- pod admission alone

\* Either TestPodAdmission about to run its table on a project without
\* annotations, or one Admit on any project, default selector and pod.
InitNode ==
    /\ nmode \in {"test", "free"}
    /\ nrow = 0
    /\ nres = NoNodeResult
    /\ IF nmode = "test"
       THEN ncache = SelNone /\ nproj = NoAnnotation /\ npod = NoLabels
       ELSE ncache \in SelectorStrings /\ nproj \in Annotations /\ npod \in PodSelectors
    /\ NoQueue
    /\ NoObserve
    /\ NoStrategy
    /\ NoAdmit
    /\ NoPrune
    /\ NoList
    /\ NoHandle
    /\ NoDiag

\* One pass of TestPodAdmission's loop: the row's default selector goes into
\* the cache, its project selector into the annotation unless the row says to
\* ignore it, its pod selector into the pod, then Admit.
RunTest ==
    /\ nmode = "test"
    /\ nrow < Len(tests)
    /\ LET test == tests[nrow + 1]
           ann == IF test.ignoreProjectNodeSelector THEN nproj
                  ELSE [present |-> TRUE, value |-> test.projectNodeSelector]
           r == podNodeEnvironment_Admit(test.defaultNodeSelector, ann, test.podNodeSelector)
       IN /\ ncache' = test.defaultNodeSelector
          /\ nproj' = ann
          /\ npod' = r.pod
          /\ nres' = [done |-> TRUE, err |-> r.err, before |-> test.podNodeSelector]
    /\ nrow' = nrow + 1
    /\ UNCHANGED <<nmode, observeVars, strategyVars, admitVars, fifoVarsOnly, deltaVars, loopVars,
                   pruneVars, listVars, handleVars, diagVars>>

\* The admission chain calls the plug-in on the Create of a pod.
CallPodAdmit ==
    /\ nmode = "free"
    /\ ~nres.done
    /\ LET r == podNodeEnvironment_Admit(ncache, nproj, npod)
       IN /\ npod' = r.pod
          /\ nres' = [done |-> TRUE, err |-> r.err, before |-> npod]
    /\ UNCHANGED <<nmode, nrow, ncache, nproj, observeVars, strategyVars, admitVars,
                   fifoVarsOnly, deltaVars, loopVars, pruneVars, listVars, handleVars, diagVars>>

NextNode == RunTest \/ CallPodAdmit

SpecNode == InitNode /\ [][NextNode]_vars

\* --------------------------------------------- prune deployments alone

\* The command about to run PruneTask: the flag, the candidates PruneTask
\* resolved (all of them existing replication controllers), the pods present.
InitPrune ==
    /\ pcfg \in [Confirm : BOOLEAN]
    /\ pstatus \in [Deployments -> DeploymentStatuses]
    /\ pcands \in Candidates
    /\ ppos = 0
    /\ pstop = FALSE
    /\ pstart \in PodOwners
    /\ pworld = [rcs |-> Deployments, pods |-> pstart, out |-> <<>>, calls |-> <<>>]
    /\ NoQueue
    /\ NoObserve
    /\ NoStrategy
    /\ NoAdmit
    /\ NoNode
    /\ NoList
    /\ NoHandle
    /\ NoDiag

\* PruneTask hands the next candidate to the prune function; when the function
\* returns an error PruneTask may stop there.
PruneOne ==
    /\ ~pstop
    /\ ppos < Len(pcands)
    /\ \E f \in PruneFaults :
          LET d == pcands[ppos + 1]
              r == deploymentPruneFunc(pcfg.Confirm, pworld, d, pstatus[d], f)
          IN /\ pworld' = r.w
             /\ pstop' \in (IF r.err THEN BOOLEAN ELSE {FALSE})
    /\ ppos' = ppos + 1
    /\ UNCHANGED <<pcfg, pstatus, pcands, pstart, nodeVars, observeVars, strategyVars,
                   admitVars, fifoVarsOnly, deltaVars, loopVars, listVars, handleVars,
                   diagVars>>

NextPrune == PruneOne

SpecPrune == InitPrune /\ [][NextPrune]_vars

\* ------------------------------------------ the delete ListWatchers alone

\* The Reflector of a delete controller about to call List.
InitList ==
    /\ lkind \in {"buildDeleteLW", "buildPodDeleteLW"}
    /\ litems \in (IF lkind = "buildDeleteLW" THEN SeqsUpTo(ListedPods, MaxListed)
                   ELSE SeqsUpTo(ListedBuilds, MaxListed))
    /\ lfail \in BOOLEAN
    /\ lstore \in ListStores
    /\ lres = NoListResult
    /\ NoQueue
    /\ NoObserve
    /\ NoStrategy
    /\ NoAdmit
    /\ NoNode
    /\ NoPrune
    /\ NoHandle
    /\ NoDiag

CallBuildDeleteList ==
    /\ lkind = "buildDeleteLW"
    /\ ~lres.done
    /\ LET r == buildDeleteLW_ListPods(lstore, lfail, litems)
       IN /\ lstore' = r.store
          /\ lres' = [done |-> TRUE, err |-> r.err, list |-> r.list, before |-> lstore]
    /\ UNCHANGED <<lkind, litems, lfail, nodeVars, pruneVars, observeVars, strategyVars,
                   admitVars, fifoVarsOnly, deltaVars, loopVars, handleVars, diagVars>>

CallBuildPodDeleteList ==
    /\ lkind = "buildPodDeleteLW"
    /\ ~lres.done
    /\ LET r == buildPodDeleteLW_List(lstore, lfail, litems)
       IN /\ lstore' = r.store
          /\ lres' = [done |-> TRUE, err |-> r.err, list |-> r.list, before |-> lstore]
    /\ UNCHANGED <<lkind, litems, lfail, nodeVars, pruneVars, observeVars, strategyVars,
                   admitVars, fifoVarsOnly, deltaVars, loopVars, handleVars, diagVars>>

NextList == CallBuildDeleteList \/ CallBuildPodDeleteList

SpecList == InitList /\ [][NextList]_vars

\* ------------------------------------------------------- Handle alone

\* The work loop about to call the build controller's Handle on a build;
\* the stored status is the build's.
InitHandle ==
    /\ hreq \in HandleRequests
    /\ hres = NoHandleResult
    /\ NoQueue
    /\ NoObserve
    /\ NoStrategy
    /\ NoAdmit
    /\ NoNode
    /\ NoPrune
    /\ NoList
    /\ NoDiag

CallHandle ==
    /\ ~hres.done
    /\ LET r == BuildHandle(hreq.build, hreq.herr, hreq.upd, hreq.build.status)
       IN hres' = [done |-> TRUE, err |-> r.err, obj |-> r.obj, pers |-> r.pers,
                   updated |-> r.updated, event |-> r.event]
    /\ UNCHANGED <<hreq, nodeVars, pruneVars, listVars, observeVars, strategyVars,
                   admitVars, fifoVarsOnly, deltaVars, loopVars, diagVars>>

NextHandle == CallHandle

SpecHandle == InitHandle /\ [][NextHandle]_vars

\* -------------------------------------------------- the diagnostics run

\* Run is called with a list of diagnostics.
InitDiag ==
    /\ dlist \in SeqsUpTo(Diagnostics, MaxDiags)
    /\ dpos = 0
    /\ dcount = NoCount
    /\ dlog = <<>>
    /\ dret = NoReturn
    /\ NoQueue
    /\ NoObserve
    /\ NoStrategy
    /\ NoAdmit
    /\ NoNode
    /\ NoPrune
    /\ NoList
    /\ NoHandle

\* One pass of Run's loop, its deferred recover included.
RunOne ==
    /\ ~dret.done
    /\ dpos < Len(dlist)
    /\ LET r == RunDiagnostic(dlist[dpos + 1], dcount)
       IN /\ dcount' = r.count
          /\ dlog' = Append(dlog, [checked |-> r.checked,
                                   warns |-> r.count.warnCount - dcount.warnCount,
                                   errs |-> r.count.errorCount - dcount.errorCount])
    /\ dpos' = dpos + 1
    /\ UNCHANGED <<dlist, dret, nodeVars, pruneVars, listVars, handleVars, observeVars,
                   strategyVars, admitVars, fifoVarsOnly, deltaVars, loopVars>>

\* The return statement after the loop.
RunReturn ==
    /\ ~dret.done
    /\ dpos = Len(dlist)
    /\ dret' = [done |-> TRUE, failed |-> dcount.errorCount > 0,
                warnCount |-> dcount.warnCount, errorCount |-> dcount.errorCount]
    /\ UNCHANGED <<dlist, dpos, dcount, dlog, nodeVars, pruneVars, listVars, handleVars,
                   observeVars, strategyVars, admitVars, fifoVarsOnly, deltaVars, loopVars>>

NextDiag == RunOne \/ RunReturn

SpecDiag == InitDiag /\ [][NextDiag]_vars

\* ------------------------------------------------- the FIFO driven directly

\* The calls a Reflector and a retry manager make on a FIFO, in any order, and
\* a consumer that pops. Objects are [key, ver]; every Add and Update carries
\* a new version of its key.
InitFIFO ==
    /\ fifo = EmptyFIFO
    /\ remote = [k \in QKeys |-> 0]
    /\ adds = [k \in QKeys |-> <<>>]
    /\ order = <<>>
    /\ popped = [key |-> "a", ver |-> 0]
    /\ policy = "Build" /\ retries = <<>> /\ now = 0 /\ pc = "pop"
    /\ cur = popped
    /\ persisted = <<>> /\ hist = <<>> /\ last = NoLast
    /\ NoDelta
    /\ NoLoop
    /\ NoRest

retryVars == <<policy, retries, now, pc, cur, persisted, hist, last, deltaVars, loopVars, restVars>>

\* FIFO.Add(obj), and FIFO.Update(obj), which is Add.
QAdd(k) ==
    /\ remote[k] < MaxQVersion
    /\ LET obj == [key |-> k, ver |-> remote[k] + 1]
       IN /\ fifo' = FIFOAdd(fifo, obj)
          /\ adds' = [adds EXCEPT ![k] = Append(@, obj)]
          /\ order' = IF adds[k] = <<>> THEN Append(order, k) ELSE order
    /\ remote' = [remote EXCEPT ![k] = @ + 1]
    /\ UNCHANGED <<popped, retryVars>>

\* FIFO.AddIfNotPresent(obj) with the object popped last (a retry).
QAddIfNotPresent ==
    /\ popped.ver > 0
    /\ fifo' = FIFOAddIfNotPresent(fifo, popped)
    /\ adds' = IF adds[popped.key] = <<>> THEN [adds EXCEPT ![popped.key] = <<popped>>] ELSE adds
    /\ order' = IF adds[popped.key] = <<>> THEN Append(order, popped.key) ELSE order
    /\ UNCHANGED <<remote, popped, retryVars>>

\* FIFO.Delete(obj).
QDelete(k) ==
    /\ fifo' = FIFODelete(fifo, k)
    /\ adds' = [adds EXCEPT ![k] = <<>>]
    /\ order' = SelectSeq(order, LAMBDA j : j # k)
    /\ UNCHANGED <<remote, popped, retryVars>>

\* FIFO.Replace(objs) with a snapshot of the remote store: the current version
\* of each key of ks, in the order snap.
QReplace(snap) ==
    /\ \A i \in DOMAIN snap : remote[snap[i]] > 0
    /\ LET objs == [i \in DOMAIN snap |-> [key |-> snap[i], ver |-> remote[snap[i]]]]
       IN /\ fifo' = FIFOReplace(fifo, objs)
          /\ adds' = [k \in QKeys |->
                        IF \E i \in DOMAIN snap : snap[i] = k
                        THEN <<[key |-> k, ver |-> remote[k]]>> ELSE <<>>]
          /\ order' = snap
    /\ UNCHANGED <<remote, popped, retryVars>>

\* FIFO.Pop().
QPop ==
    /\ fifo.queue # <<>>
    /\ popped' = fifo.items[FIFOPopKey(fifo)]
    /\ fifo' = FIFOPop(fifo)
    /\ adds' = [adds EXCEPT ![Head(order)] = <<>>]
    /\ order' = Tail(order)
    /\ UNCHANGED <<remote, retryVars>>

NextFIFO ==
    \/ \E k \in QKeys : QAdd(k)
    \/ QAddIfNotPresent
    \/ \E k \in QKeys : QDelete(k)
    \/ \E snap \in Snapshots(QKeys) : QReplace(snap)
    \/ QPop

SpecFIFO == InitFIFO /\ [][NextFIFO]_vars

\* ---------------------------------------- Reflector, DeltaFIFO and consumer

fifoVars == <<policy, fifo, retries, now, pc, cur, remote, persisted, hist, last, fifoHist,
              loopVars, restVars>>

InitDelta ==
    /\ lister \in {"store", "keyListerGetter"}
    /\ lw = "plain"
    /\ dfifo = EmptyDeltaFIFO
    /\ known = <<>>
    /\ log = <<>>
    /\ rstate = [k \in QKeys |-> 0]
    /\ rpc = "list"
    /\ cursor = 0
    /\ listed = <<>>
    /\ call = NoCall
    /\ yielded = [k \in QKeys |-> <<>>]
    /\ delivered = [k \in QKeys |-> 0]
    /\ fifo = EmptyFIFO /\ remote = <<>> /\ adds = <<>> /\ order = <<>> /\ popped = <<>>
    /\ policy = "Build" /\ retries = <<>> /\ now = 0 /\ pc = "pop"
    /\ cur = [key |-> "a", ver |-> 0]
    /\ persisted = <<>> /\ hist = <<>> /\ last = NoLast
    /\ NoLoop
    /\ NoRest

\* The remote store creates, modifies or deletes k at the next resource version.
RemoteChange(k) ==
    /\ Len(log) < MaxRV
    /\ \E t \in IF rstate[k] = 0 THEN {"Added"} ELSE {"Modified", "Deleted"} :
         /\ log' = Append(log, [type |-> t, key |-> k, ver |-> Len(log) + 1])
         /\ rstate' = [rstate EXCEPT ![k] = IF t = "Deleted" THEN 0 ELSE Len(log) + 1]
    /\ UNCHANGED <<lister, dfifo, known, rpc, cursor, listed, call, yielded, lw, delivered, fifoVars>>

\* The snapshot List returns: the objects present, in key order.
RECURSIVE ListOf(_)
ListOf(ks) ==
    IF ks = {} THEN <<>>
    ELSE LET k == CHOOSE x \in ks : \A y \in ks : x = y \/ KeyLess(x, y)
         IN <<[key |-> k, ver |-> rstate[k]]>> \o ListOf(ks \ {k})
Snapshot == ListOf({k \in QKeys : rstate[k] > 0})

\* Reflector step 1: List, Replace the store's contents, set the cursor.
\* Under buildDeleteLW the List itself calls Delete on the store, for the
\* builds of orphaned pods (any builds that are absent), and lists nothing.
ReflectorList ==
    /\ rpc = "list"
    /\ Len(listed) < MaxLists
    /\ IF lw = "buildDeleteLW"
       THEN \E orphans \in Snapshots({k \in QKeys : rstate[k] = 0}) :
              /\ dfifo' = DeltaReplace(buildDeleteLW_List(dfifo, orphans, lister, known),
                                       <<>>, <<>>, lister, known)
              /\ delivered' = [k \in QKeys |->
                                 delivered[k] + Occurrences(orphans, k)]
       ELSE \E ks \in Snapshots(Missing(Snapshot, lister, known)) :
              /\ Len(ks) = Cardinality(Missing(Snapshot, lister, known))
              /\ dfifo' = DeltaReplace(dfifo, Snapshot, ks, lister, known)
              /\ UNCHANGED delivered
    /\ cursor' = Len(log)
    /\ listed' = Append(listed, Len(log))
    /\ call' = [op |-> "Replace", key |-> "a", ver |-> Len(log)]
    /\ rpc' = "watch"
    /\ UNCHANGED <<lister, known, log, rstate, yielded, lw, fifoVars>>

\* Reflector step 2: the next event of the stream goes to the store.
ReflectorWatch ==
    /\ rpc = "watch"
    /\ cursor < Len(log)
    /\ LET ev == log[cursor + 1]
           obj == [key |-> ev.key, ver |-> ev.ver]
       IN /\ dfifo' = CASE ev.type = "Added" -> DeltaAdd(dfifo, obj)
                         [] ev.type = "Modified" -> DeltaUpdate(dfifo, obj)
                         [] ev.type = "Deleted" -> DeltaDelete(dfifo, obj, lister, known)
          /\ call' = [op |-> ev.type, key |-> ev.key, ver |-> ev.ver]
          /\ delivered' = IF ev.type = "Deleted" THEN [delivered EXCEPT ![ev.key] = @ + 1]
                          ELSE delivered
    /\ cursor' = cursor + 1
    /\ UNCHANGED <<lister, known, log, rstate, rpc, listed, yielded, lw, fifoVars>>

\* Reflector step 3: the stream ends; the Reflector goes back to List.
WatchClosed ==
    /\ rpc = "watch"
    /\ Len(listed) < MaxLists
    /\ rpc' = "list"
    /\ UNCHANGED <<lister, dfifo, known, log, rstate, cursor, listed, call, yielded, lw, delivered, fifoVars>>

\* The consumer pops a key's Deltas and brings its store up to date.
DPop ==
    /\ dfifo.queue # <<>>
    /\ LET k == DeltaPopKey(dfifo)
       IN /\ yielded' = [yielded EXCEPT ![k] = @ \o dfifo.items[k]]
          /\ known' = IF lister = "store" THEN Process(known, dfifo.items[k]) ELSE known
    /\ dfifo' = DeltaPop(dfifo)
    /\ call' = [op |-> "Pop", key |-> DeltaPopKey(dfifo), ver |-> 0]
    /\ UNCHANGED <<lister, log, rstate, rpc, cursor, listed, lw, delivered, fifoVars>>

NextDelta ==
    \/ \E k \in QKeys : RemoteChange(k)
    \/ ReflectorList
    \/ ReflectorWatch
    \/ WatchClosed
    \/ DPop

SpecDelta == InitDelta /\ [][NextDelta]_vars

\* The queue of the build delete controller (CreateDeleteController): a
\* DeltaFIFO with keyListerGetter, filled by a Reflector over buildDeleteLW.
InitDeleteLW ==
    /\ lister = "keyListerGetter"
    /\ lw = "buildDeleteLW"
    /\ dfifo = EmptyDeltaFIFO
    /\ known = <<>>
    /\ log = <<>>
    /\ rstate = [k \in QKeys |-> 0]
    /\ rpc = "list"
    /\ cursor = 0
    /\ listed = <<>>
    /\ call = NoCall
    /\ yielded = [k \in QKeys |-> <<>>]
    /\ delivered = [k \in QKeys |-> 0]
    /\ fifo = EmptyFIFO /\ remote = <<>> /\ adds = <<>> /\ order = <<>> /\ popped = <<>>
    /\ policy = "Build" /\ retries = <<>> /\ now = 0 /\ pc = "pop"
    /\ cur = [key |-> "a", ver |-> 0]
    /\ persisted = <<>> /\ hist = <<>> /\ last = NoLast
    /\ NoLoop
    /\ NoRest

SpecDeleteLW == InitDeleteLW /\ [][NextDelta]_vars

\* ------------------------------------------------------------- properties

CountPolicies == {"BuildPod", "ImageStream", "BuildConfig"}
Decided == last.decision \in {"retry", "giveup"}

\* C1 (as claimed): under retryFunc, a key whose Handle keeps failing with a
\* non-fatal error is given up after exactly maxRetries failed attempts, once,
\* and its retry state is gone.
C1_RetryBoundExact ==
    (policy \in CountPolicies /\ last.decision = "giveup" /\ ~IsFatal(policy, last.err))
        => /\ hist[last.key].attempts = maxRetries
           /\ hist[last.key].giveUps = 1
           /\ last.key \notin DOMAIN retries

\* What the code does instead: the give-up comes with the (maxRetries + 2)-th
\* failed attempt, after maxRetries + 1 re-enqueues.
RetryBoundActual ==
    (policy \in CountPolicies /\ last.decision = "giveup" /\ ~IsFatal(policy, last.err))
        => /\ hist[last.key].attempts = maxRetries + 2
           /\ last.count = maxRetries + 1
           /\ hist[last.key].giveUps = 1
           /\ last.key \notin DOMAIN retries
RetryBoundReached ==
    policy = "BuildPod" /\ last.decision = "giveup" /\ hist[last.key].attempts = maxRetries + 2

\* C2 (as claimed): once the give-up action has run in an episode it has run
\* exactly once, the item was dropped and its retry state discarded.
C2_GiveUpOnce ==
    \A k \in Keys :
        hist[k].giveUps >= 1 =>
            /\ hist[k].giveUps = 1
            /\ (last.key = k /\ Decided) => last.decision = "giveup"
            /\ (last.key = k /\ Decided) => k \notin DOMAIN retries

\* A step of handleOne in which the retry policy re-enqueues the key.
RetryRequeue == pc = "handle" /\ last'.decision = "retry"

\* C3 (as claimed): every key is re-enqueued by the retry policy only finitely
\* often, whatever Handle and the status update return.
C3_NoUnboundedRetry == <>[][~RetryRequeue]_vars

\* C4 (as claimed): the build controller's policy answers retry exactly while
\* less than maxTimeout has elapsed since the episode's StartTimestamp.
C4_BoundedDuration ==
    (policy = "Build" /\ Decided)
        => (last.decision = "retry" <=> last.elapsed < maxTimeout)

\* C5: under the ImageStream and BuildConfig controllers a Handle error that
\* IsFatal classifies as fatal is given up in that same handleOne, whatever
\* the retry count and the elapsed time: the queue is left as it was and the
\* key's retry state is discarded.
C5_FatalShortCircuit ==
    [][(pc = "handle" /\ pc' = "pop" /\ ~last'.err.nil /\ IsFatal(policy, last'.err))
          => /\ last'.decision = "giveup"
             /\ fifo' = fifo
             /\ last'.key \notin DOMAIN retries']_vars

\* C5's case: a fatal error on the first attempt of an episode, given up.
C5_Witness ==
    /\ policy \in {"ImageStream", "BuildConfig"}
    /\ IsFatal(policy, last.err) /\ last.decision = "giveup"
    /\ hist[last.key].attempts = 1 /\ hist[last.key].giveUps = 1

\* The status a give-up for error err leaves in the store.
IsFailedFor(st, err) ==
    /\ st.phase = "Failed"
    /\ st.reason = "ExceededRetryTimeout"
    /\ st.completed
    /\ st.message = ErrorToSentence(err.msg)

\* C6 (as claimed): whenever the build controller's policy gives up on a build,
\* the build is persisted as Failed / ExceededRetryTimeout with a completion
\* timestamp and the sentence of the last error.
C6_PersistedOnGiveUp ==
    (policy = "Build" /\ last.decision = "giveup")
        => IsFailedFor(persisted[last.key], last.err)

\* C6 (amended): whenever the build controller's policy gives up on a build,
\* either its Update succeeded and the build is persisted as Failed /
\* ExceededRetryTimeout with a completion timestamp and the sentence of the
\* last error, or its Update reported NotFound (the build is gone).
C6_PersistedUnlessNotFound ==
    (policy = "Build" /\ last.decision = "giveup")
        => /\ last.elapsed >= maxTimeout
           /\ \/ last.upd = "ok" /\ IsFailedFor(persisted[last.key], last.err)
              \/ last.upd = "NotFound"

\* C6's case: a give-up whose Update succeeded.
C6_Witness ==
    policy = "Build" /\ last.decision = "giveup" /\ last.upd = "ok"

\* Occurrences of k in a sequence of keys.

\* C7: a key added or updated two or more times before being popped holds one
\* slot of the queue, with the latest value, and the queued keys stand in the
\* order of their first enqueue; Pop returns the head key's latest value and
\* takes the key off the queue.
C7_FIFODedup ==
    /\ [](\A k \in QKeys :
            Len(adds[k]) >= 2 =>
                /\ Occurrences(fifo.queue, k) = 1
                /\ fifo.items[k] = adds[k][Len(adds[k])]
                /\ fifo.queue = order)
    /\ [][(fifo.queue # <<>> /\ popped' # popped) =>
             /\ popped' = adds[Head(order)][Len(adds[Head(order)])]
             /\ Occurrences(fifo'.queue, popped'.key) = 0]_vars

\* C7's case: both keys queued, the first enqueued key updated twice since, and
\* then popped with its latest value.
C7_Witness ==
    /\ popped = [key |-> "a", ver |-> 3]
    /\ fifo.queue = <<"b">>
    /\ remote["b"] = 2 /\ Len(adds["b"]) = 2

\* s is a prefix of t.
IsPrefix(s, t) == Len(s) <= Len(t) /\ SubSeq(t, 1, Len(s)) = s

DeltaType(op) ==
    CASE op = "Added" -> "Added" [] op = "Modified" -> "Updated" [] op = "Deleted" -> "Deleted"

\* C8: every Add, Update and Delete appends its delta at the tail of its key's
\* list (a Delete of a key neither known nor pending is dropped), no call
\* reorders or removes pending deltas or queued keys, and Pop returns the whole
\* list, in that order, of the key at the head of the queue.
C8_DeltaOrder ==
    [][/\ (cursor' = cursor + 1 /\ listed' = listed) =>
            LET k == call'.key
                d == [type |-> DeltaType(call'.op), key |-> k, ver |-> call'.ver]
            IN IF call'.op = "Deleted" /\ Pending(dfifo, k) = <<>>
                  /\ lister = "store" /\ k \notin DOMAIN known
               THEN dfifo' = dfifo
               ELSE /\ Pending(dfifo', k) = Append(Pending(dfifo, k), d)
                    /\ \A j \in QKeys \ {k} : Pending(dfifo', j) = Pending(dfifo, j)
                    /\ dfifo'.queue = IF Pending(dfifo, k) = <<>>
                                      THEN Append(dfifo.queue, k) ELSE dfifo.queue
       /\ yielded' = yielded =>
            /\ \A k \in QKeys : IsPrefix(Pending(dfifo, k), Pending(dfifo', k))
            /\ IsPrefix(dfifo.queue, dfifo'.queue)
       /\ yielded' # yielded =>
            LET k == Head(dfifo.queue)
            IN /\ yielded' = [yielded EXCEPT ![k] = @ \o Pending(dfifo, k)]
               /\ Pending(dfifo', k) = <<>>
               /\ dfifo'.queue = Tail(dfifo.queue)
               /\ \A j \in QKeys \ {k} : Pending(dfifo', j) = Pending(dfifo, j)]_vars

\* C8's case: b is created and modified while a, listed before, waits at the
\* head of the queue; a is popped first, then b's deltas in the order they came.
C8_Witness ==
    /\ call = [op |-> "Pop", key |-> "b", ver |-> 0]
    /\ listed = <<1>>
    /\ yielded["a"] = <<[type |-> "Sync", key |-> "a", ver |-> 1]>>
    /\ yielded["b"] = <<[type |-> "Added", key |-> "b", ver |-> 2],
                        [type |-> "Updated", key |-> "b", ver |-> 3]>>

\* Deleted deltas in a list.
Deletions(ds) == Cardinality({i \in DOMAIN ds : ds[i].type = "Deleted"})

\* C9: a Replace adds, for every key the local store tracks and the snapshot
\* lacks, exactly one Deleted delta at the tail of the key's list, and none
\* when the newest pending delta of the key is a Deleted one already; keys the
\* store does not track and the snapshot lacks get nothing.
C9_SyntheticDelete ==
    [][(listed' # listed /\ lw = "plain") =>
         \A k \in QKeys :
             LET old == Pending(dfifo, k)
                 new == Pending(dfifo', k)
             IN rstate[k] = 0 =>
                  IF k \in ListKeys(lister, known)
                  THEN /\ EndsDeleted(new)
                       /\ IsPrefix(old, new)
                       /\ Len(new) - Len(old) = IF EndsDeleted(old) THEN 0 ELSE 1
                       /\ Deletions(new) - Deletions(old) = IF EndsDeleted(old) THEN 0 ELSE 1
                  ELSE new = old]_vars

\* C9's case: a was listed, popped into the local store and then deleted
\* remotely; the watch ended before the Deleted event came, and the relist put
\* a Deleted delta with a's last known version in the queue.
C9_Witness ==
    /\ lister = "store"
    /\ log = <<[type |-> "Added", key |-> "a", ver |-> 1],
               [type |-> "Deleted", key |-> "a", ver |-> 2]>>
    /\ listed = <<1, 2>>
    /\ call.op = "Replace"
    /\ yielded["a"] = <<[type |-> "Sync", key |-> "a", ver |-> 1]>>
    /\ Pending(dfifo, "a") = <<[type |-> "Deleted", key |-> "a", ver |-> 1]>>

\* The version of k in the remote store at resource version r, 0 when absent.
RECURSIVE VerAt(_, _)
VerAt(k, r) ==
    IF r = 0 THEN 0
    ELSE IF log[r].key = k THEN (IF log[r].type = "Deleted" THEN 0 ELSE log[r].ver)
    ELSE VerAt(k, r - 1)

\* The deltas of the events r+1 .. c of the log that are about k, in order.
RECURSIVE Streamed(_, _, _)
Streamed(k, r, c) ==
    IF c <= r THEN <<>>
    ELSE Streamed(k, r, c - 1) \o
         (IF log[c].key = k
          THEN <<[type |-> DeltaType(log[c].type), key |-> k, ver |-> log[c].ver]>>
          ELSE <<>>)

\* What the store owes for k after one List at resource version r and the
\* stream up to the cursor.
Reflected(k, r) ==
    (IF VerAt(k, r) > 0 THEN <<[type |-> "Sync", key |-> k, ver |-> VerAt(k, r)]>> ELSE <<>>)
        \o Streamed(k, r, cursor)

\* C10: while the Reflector has listed once, the deltas popped for a key
\* followed by the key's pending deltas are the Sync of the listed object and
\* then one delta per streamed event of the key (Added, Updated for Modified,
\* Deleted), in the order of the stream, each with the event's version.
C10_EndToEnd ==
    /\ listed = <<>> => \A k \in QKeys : yielded[k] = <<>> /\ Pending(dfifo, k) = <<>>
    /\ (Len(listed) = 1 /\ lw = "plain") =>
          \A k \in QKeys : yielded[k] \o Pending(dfifo, k) = Reflected(k, listed[1])

\* C10's case: List returns a at version 1, the stream brings Modified a (2)
\* and Deleted a (3), and the consumer has popped everything.
C10_Witness ==
    /\ log = <<[type |-> "Added", key |-> "a", ver |-> 1],
               [type |-> "Modified", key |-> "a", ver |-> 2],
               [type |-> "Deleted", key |-> "a", ver |-> 3]>>
    /\ listed = <<1>>
    /\ cursor = 3
    /\ yielded["a"] = <<[type |-> "Sync", key |-> "a", ver |-> 1],
                        [type |-> "Updated", key |-> "a", ver |-> 2],
                        [type |-> "Deleted", key |-> "a", ver |-> 3]>>

\* C13: while the plug is closed the worker pops no item, so that no Handle is
\* started; with the plug open, a waiting worker and a queued item it can pop;
\* and a master with no lease TTL and PauseControllers set has its plug closed
\* and has handled nothing for as long as nothing has started the plug.
C13_LeaseGate ==
    /\ [][~plug.open => ~(pc = "pop" /\ pc' = "handle")]_vars
    /\ []((plug.open /\ pc = "pop" /\ fifo.queue # <<>>) => ENABLED Pop)
    /\ []((options.ControllerLeaseTTL = 0 /\ options.PauseControllers /\ ~plug.started)
            => /\ ~plug.open
               /\ pc = "pop" /\ cur.ver = 0
               /\ \A k \in QKeys : hist[k] = NoHist)

\* C13's case: a paused master whose plug was started later: the worker has
\* popped the second version of a key.
C13_Witness ==
    /\ options.ControllerLeaseTTL = 0 /\ options.PauseControllers
    /\ plug.started /\ plug.open
    /\ pc = "handle" /\ cur.ver = 2

\* C14: a Handle that panics is one failed attempt of its item: the retry
\* manager is asked about the item and the episode's attempts go up by one;
\* no other key's retry state or history changes, and the worker is back at
\* Pop, which it can take whenever an item is queued and the plug is open.
C14_PanicContained ==
    /\ [][(pc = "handle" /\ pc' = "pop" /\ last'.err.class = "panic")
           => /\ last'.key = cur.key
              /\ last'.decision \in {"retry", "giveup"}
              /\ hist'[cur.key].attempts =
                     Min((IF cur.key \in DOMAIN retries THEN hist[cur.key].attempts ELSE 0) + 1,
                         CountCap(policy) + 1)
              /\ \A j \in QKeys \ {cur.key} :
                     /\ hist'[j] = hist[j]
                     /\ (j \in DOMAIN retries') = (j \in DOMAIN retries)
                     /\ j \in DOMAIN retries => retries'[j] = retries[j]]_vars
    /\ []((last.err.class = "panic" /\ pc = "pop" /\ plug.open /\ fifo.queue # <<>>)
            => ENABLED Pop)

\* C14's case: Handle panicked on a, once, and the worker is handling b.
C14_Witness ==
    /\ hist["a"].panicked /\ hist["a"].attempts = 1
    /\ "a" \in DOMAIN retries
    /\ pc = "handle" /\ cur.key = "b"

\* The step is a handleOne that ran the give-up body for its key.
GaveUpStep == pc = "handle" /\ pc' = "pop" /\ (last'.decision = "giveup" \/ last'.upd # "none")

\* Within an episode Count does not go down and StartTimestamp stays (the
\* clock's steps, which move timestamps instead of the clock once it is at
\* MaxTime, never shorten the elapsed time); an episode starts at count 0
\* with the time of its first failure.
EpisodeMonotonic ==
    \A k \in Keys :
        /\ (k \in DOMAIN retries /\ k \in DOMAIN retries')
              => /\ retries'[k].Count >= retries[k].Count
                 /\ pc' # pc => retries'[k].StartTimestamp = retries[k].StartTimestamp
                 /\ now' - retries'[k].StartTimestamp >= now - retries[k].StartTimestamp
        /\ (k \notin DOMAIN retries /\ k \in DOMAIN retries')
              => /\ last'.count = 0 /\ last'.elapsed = 0
                 /\ retries'[k].StartTimestamp = now

EpisodeStateActual ==
    [][/\ EpisodeMonotonic
       /\ (pc = "handle" /\ pc' = "pop" /\ last'.decision \in {"success", "giveup"})
             => cur.key \notin DOMAIN retries'
       /\ (pc = "handle" /\ pc' = "pop" /\ last'.decision = "retry")
             => cur.key \in DOMAIN retries']_vars

\* The newest version of every key the Reflector delivered has been popped:
\* the worker is handling it, or it is what the worker handled last.
NewestPopped == \A k \in Keys : remote[k] = 0 \/ (cur.key = k /\ cur.ver = remote[k])

\* C16: a retry that finds its key queued again leaves the queue as it is;
\* a queued key holds one slot with the newest version the Reflector
\* delivered, so that the next Pop yields it; a key that is not queued has had
\* its newest version popped; and with a worker that keeps running the newest
\* version of every key is popped in the end.
C16_RetryKeepsNewer ==
    /\ [][(pc = "handle" /\ pc' = "pop" /\ last'.decision = "retry"
              /\ cur.key \in DOMAIN fifo.items) => fifo' = fifo]_vars
    /\ [](\A k \in Keys :
             /\ k \in DOMAIN fifo.items
                   => fifo.items[k].ver = remote[k] /\ Occurrences(fifo.queue, k) = 1
             /\ (remote[k] > 0 /\ k \notin DOMAIN fifo.items)
                   => cur.key = k /\ cur.ver = remote[k])
    /\ <>[]NewestPopped

\* C16's case: version 1 failed and is to be retried while version 2 was
\* queued during its Handle; version 2 is what waits in the queue.
C16_Witness ==
    /\ pc = "pop" /\ last.decision = "retry" /\ last.key = "a"
    /\ cur.ver = 1 /\ remote["a"] = 2
    /\ "a" \in DOMAIN fifo.items /\ fifo.items["a"].ver = 2

\* n Deleted deltas of key k, as a bare Delete from buildDeleteLW.List queues them.
RECURSIVE BareDeletes(_, _)
BareDeletes(k, n) ==
    IF n = 0 THEN <<>> ELSE Append(BareDeletes(k, n - 1), [type |-> "Deleted", key |-> k, ver |-> 0])

\* C17: with keyListerGetter every Delete given to the DeltaFIFO, by the watch
\* stream or by buildDeleteLW.List, puts one Deleted delta at the tail of its
\* key's list, whether or not the key was ever added; the Deleted deltas of a
\* key, popped and pending, are as many as the Deletes delivered for it (none
\* is dropped or merged), and a Pop hands the whole pending list over.
C17_DeletesQueued ==
    /\ [][lister = "keyListerGetter" =>
             \A k \in QKeys :
                 /\ (cursor' = cursor + 1 /\ listed' = listed /\ delivered'[k] = delivered[k] + 1)
                       => Pending(dfifo', k) =
                             Append(Pending(dfifo, k),
                                    [type |-> "Deleted", key |-> k, ver |-> cursor'])
                 /\ (listed' # listed /\ lw = "buildDeleteLW")
                       => Pending(dfifo', k) =
                             Pending(dfifo, k) \o BareDeletes(k, delivered'[k] - delivered[k])
                 /\ (call'.op = "Pop" /\ call'.key = k /\ yielded' # yielded)
                       => /\ yielded'[k] = yielded[k] \o Pending(dfifo, k)
                          /\ Pending(dfifo', k) = <<>>]_vars
    /\ [](lister = "keyListerGetter" =>
             \A k \in QKeys :
                 Deletions(yielded[k] \o Pending(dfifo, k)) = delivered[k])

\* C17's case: build a never existed for the controller; buildDeleteLW.List
\* found its orphaned pod twice, and both Deleted deltas were popped.
C17_Witness ==
    /\ lister = "keyListerGetter" /\ lw = "buildDeleteLW"
    /\ log = <<>>
    /\ delivered["a"] = 2
    /\ yielded["a"] = BareDeletes("a", 2)
    /\ Pending(dfifo, "a") = <<>>

\* C11: ObserveResourceVersion has returned success exactly when the quorum-th
\* view reported the target version: at success the reports are as many as the
\* quorum (no further view was waited for) and the timeout had not passed,
\* and while it runs or after it timed out they are fewer. The store NewREST
\* builds over backends has quorum 1: its observer never waits past a report.
C11_QuorumSuccess ==
    /\ obs.result = "ok"
          => /\ Cardinality(obs.reported) = ocfg.observer.quorum
             /\ \A i \in obs.reported : etcd.visible[i] >= obs.target
             /\ obs.elapsed < ocfg.observer.timeout
             /\ created = "ok"
    /\ obs.result \in {"running", "timeout"}
          => Cardinality(obs.reported) < ocfg.observer.quorum
    /\ (ocfg.oauth /\ ocfg.backends > 0 /\ obs.result \in {"running", "timeout"})
          => obs.reported = {}

\* C11's case: three views, quorum 2; two views reported, the third has not
\* even seen the write, and the observer returned success.
C11_Witness ==
    /\ ocfg.backends = 3 /\ ocfg.observer.quorum = 2
    /\ obs.result = "ok" /\ obs.reported = {1, 2}
    /\ etcd.visible[3] < obs.target

\* C12: ObserveResourceVersion runs for at most the timeout (5 seconds); when
\* it times out fewer views than the quorum had reported, Create returns the
\* error, and the token is still in the storage. Create over backends returns
\* success only after the observer did, and an error only after a timeout;
\* no step takes a committed write back.
C12_QuorumTimeout ==
    /\ [](obs.result = "running" => obs.elapsed < ocfg.observer.timeout)
    /\ [](obs.result = "timeout"
            => /\ obs.elapsed = observeTimeout
               /\ Cardinality(obs.reported) < ocfg.observer.quorum
               /\ created = "error"
               /\ etcd.committed >= obs.target)
    /\ []((ocfg.backends > 0 /\ created = "ok") => obs.result = "ok")
    /\ [](created = "error" => obs.result = "timeout")
    /\ [][etcd'.committed >= etcd.committed]_vars

\* C12's case: the store NewREST built over two backends; the token was
\* written, neither backend showed it within 5 seconds, Create returned the
\* error and the token is in the storage.
C12_Witness ==
    /\ ocfg.oauth /\ ocfg.backends = 2
    /\ obs.result = "timeout" /\ obs.reported = {}
    /\ created = "error"
    /\ etcd.committed = 1 /\ obs.target = 1

\* The strategies set on a build.
SetStrategies(b) ==
    {st \in {"Docker", "Source", "Custom"} :
        \/ st = "Docker" /\ b.DockerStrategy
        \/ st = "Source" /\ b.SourceStrategy
        \/ st = "Custom" /\ b.CustomStrategy}

\* C18: CreateBuildPod calls one strategy, one that is set on the build (the
\* one that is set, when there is just one), and returns what it returned; with
\* no strategy set it calls none and returns an error and no pod; a pod that
\* is returned has the build annotation set to the build's name and its other
\* annotations kept.
C18_StrategyDispatch ==
    sres.done =>
        /\ SetStrategies(sreq.build) = {}
              => sres.err /\ sres.pod.isNil /\ sres.calls = <<>>
        /\ SetStrategies(sreq.build) # {}
              => /\ Len(sres.calls) = 1
                 /\ sres.calls[1] \in SetStrategies(sreq.build)
                 /\ sres.err = sreq.made.err
                 /\ sres.pod.isNil = sreq.made.pod.isNil
        /\ ~sres.pod.isNil
              => /\ ~sres.pod.annNil
                 /\ "build" \in DOMAIN sres.pod.ann
                 /\ sres.pod.ann["build"] = sreq.build.name
                 /\ sres.pod.by = sres.calls[1]
                 /\ \A key \in DOMAIN sreq.made.pod.ann \ {"build"} :
                        sres.pod.ann[key] = sreq.made.pod.ann[key]

\* C18's case: a Source build whose strategy returned a pod that carried
\* another build's annotation.
C18_Witness ==
    /\ sres.done
    /\ SetStrategies(sreq.build) = {"Source"} /\ sreq.build.name = "b2"
    /\ sreq.made.pod.ann = [build |-> "old"] /\ ~sreq.made.pod.annNil
    /\ sres.pod.ann = [build |-> "b2"] /\ sres.calls = <<"Source">>

\* A CREATE of a namespaced resource, other than the creatable resources and
\* the subject access reviews, in a namespace that is terminating.
CreateInTerminating ==
    /\ areq.operation = "CREATE"
    /\ areq.namespace # ""
    /\ areq.mapper = "namespaced"
    /\ areq.phase = "Terminating"
    /\ ToLower(areq.resource) \notin recommendedCreatableResources
    /\ ~isSubjectAccessReview(areq)

\* C19: Admit forbids every such CREATE, and makes no Associate call for it.
C19_TerminatingForbidden ==
    (ares.done /\ CreateInTerminating) => (ares.err = "forbidden" /\ ares.associates = 0)

\* C19's case: a build created in a terminating namespace, with the project
\* cache running and an Associate that would have succeeded.
C19_Witness ==
    /\ ares.done /\ CreateInTerminating
    /\ areq.resource = "builds" /\ areq.running /\ areq.assocFails = 0
    /\ ares.err = "forbidden"

\* C20 (as claimed): Admit returns no error for a DELETE, whatever the
\* resource, the namespace and the project cache.
C20_DeleteAllowed == (ares.done /\ areq.operation = "DELETE") => ares.err = "nil"

\* What the code does: a DELETE is let through unless the RESTMapper knows
\* the resource's kind and has no mapping for it.
DeleteAllowedActual ==
    (ares.done /\ areq.operation = "DELETE")
        => (ares.err = "forbidden"
              <=> (areq.namespace # "" /\ ~isSubjectAccessReview(areq)
                     /\ areq.mapper = "nomapping"))

\* ---------------------------------------------------------------- C21
\* The selector the claim calls the effective project selector.
EffectiveSelector == IF nproj.present THEN Parse(nproj.value) ELSE Parse(ncache)

\* C21: after Admit on a pod Create, with the effective project selector being
\* the project's annotation when present (even when empty) and the cluster
\* default otherwise: the pod is admitted iff no label key of the
\* pod's selector has another value in the effective selector; an admitted
\* pod's selector is the union of both, a rejected pod's selector is what it
\* was. Every row of TestPodAdmission expects exactly this outcome.
C21_NodeSelector ==
    nres.done =>
        /\ ~nres.err <=> (\A k \in DOMAIN nres.before :
                              k \in DOMAIN EffectiveSelector
                                  => EffectiveSelector[k] = nres.before[k])
        /\ ~nres.err =>
               /\ DOMAIN npod = DOMAIN nres.before \cup DOMAIN EffectiveSelector
               /\ \A k \in DOMAIN nres.before : npod[k] = nres.before[k]
               /\ \A k \in DOMAIN EffectiveSelector : npod[k] = EffectiveSelector[k]
        /\ nres.err => npod = nres.before
        /\ nmode = "test" =>
               /\ tests[nrow].admit = ~nres.err
               /\ tests[nrow].mergedNodeSelector = npod

\* TestPodAdmission has run its whole table; the last row's pod conflicts
\* with the project's annotation, is rejected and keeps its two labels.
C21_Witness ==
    /\ nmode = "test"
    /\ nrow = Len(tests)
    /\ nres.done /\ nres.err
    /\ nproj.present
    /\ DOMAIN npod = {"env", "color"}


\* ---------------------------------------------------------------- C22
Handled == {pcands[i] : i \in 1..ppos}
CallAt(op, on) == {i \in DOMAIN pworld.calls : pworld.calls[i].op = op /\ pworld.calls[i].on = on}
Deletes == {i \in DOMAIN pworld.calls : pworld.calls[i].op \in {"DeletePod", "DeleteRC"}}

\* Without --confirm nothing is deleted and the candidates are listed.
DryRunFrame ==
    /\ pworld.out = SubSeq(pcands, 1, ppos)
    /\ ~pcfg.Confirm =>
           /\ Deletes = {}
           /\ pworld.rcs = Deployments
           /\ pworld.pods = pstart
    /\ \A d \in Deployments : CallAt("DeleteRC", d) # {} => (pcfg.Confirm /\ d \in Handled)

\* C22: without --confirm the command deletes no replication controller and
\* no pod and only lists the candidates; with --confirm a Delete is issued
\* for each candidate handled, and for a candidate whose status is Failed a
\* Delete has been issued for each of its deployer pods before the one for
\* the deployment itself.
C22_PruneDryRun ==
    /\ DryRunFrame
    /\ pcfg.Confirm =>
           \A d \in Handled :
               /\ CallAt("DeleteRC", d) # {}
               /\ pstatus[d] = "Failed" =>
                      \A q \in DeployerPods :
                          pstart[q] = d =>
                              \E i \in CallAt("DeletePod", q) :
                                  \A j \in CallAt("DeleteRC", d) : i < j

\* What the command does: the deployer pods of a failed candidate get their
\* Delete only when listing them worked; the deployment's Delete is issued
\* either way, after those of the pods that were listed.
PruneActual ==
    /\ DryRunFrame
    /\ pcfg.Confirm =>
           \A d \in Handled :
               /\ CallAt("DeleteRC", d) # {}
               /\ \A q \in DeployerPods :
                      /\ (pstatus[d] = "Failed" /\ pstart[q] = d
                          /\ \E i \in CallAt("ListPods", d) : pworld.calls[i].ok)
                             => \E i \in CallAt("DeletePod", q) :
                                    \A j \in CallAt("DeleteRC", d) : i < j
                      /\ (pstart[q] = d /\ CallAt("DeletePod", q) # {})
                             => pstatus[d] = "Failed"


\* ---------------------------------------------------------------- C23
\* What List appended to the deltas of key k.
Queued(k) ==
    SubSeq(Pending(lstore, k), Len(Pending(lres.before, k)) + 1, Len(Pending(lstore, k)))

\* List left what was pending in place, and added nothing but Deleted deltas
\* carrying a bare object.
OnlyDeletesQueued ==
    \A k \in DOMAIN lstore.items \cup DOMAIN lres.before.items :
        /\ IsPrefix(Pending(lres.before, k), Pending(lstore, k))
        /\ \A i \in DOMAIN Queued(k) : Queued(k)[i] = [type |-> "Deleted", key |-> k, ver |-> 0]

ListKeySpace ==
    {MetaNamespaceKeyFunc(n, m) : n \in Namespaces, m \in BuildLabels \cup {"x-build"}}

\* C23: buildDeleteLW.List, when it succeeds, returns an empty build list and
\* has queued a Delete for the build (namespace, name) of exactly the listed
\* pods whose build label is non-empty and whose build's Get reports NotFound;
\* nothing is queued for a pod whose build exists or whose label is empty.
C23_BuildDeleteList ==
    (lres.done /\ lkind = "buildDeleteLW" /\ ~lres.err) =>
        /\ lres.list = <<>>
        /\ OnlyDeletesQueued
        /\ \A k \in ListKeySpace :
               Queued(k) # <<>> <=>
                   \E i \in DOMAIN litems :
                       /\ litems[i].label # ""
                       /\ litems[i].get = "NotFound"
                       /\ k = MetaNamespaceKeyFunc(litems[i].namespace, litems[i].label)

\* List succeeded on a pod without build label whose Get would report
\* NotFound and a pod whose build x is gone from n2: one Delete, for n2/x.
C23_Witness ==
    /\ lres.done /\ lkind = "buildDeleteLW" /\ ~lres.err
    /\ \E i \in DOMAIN litems : litems[i].label = "" /\ litems[i].get = "NotFound"
    /\ Queued(MetaNamespaceKeyFunc("n2", "x")) # <<>>
    /\ \A k \in ListKeySpace \ {MetaNamespaceKeyFunc("n2", "x")} : Queued(k) = <<>>

C24_HandleReturnsError ==
    hres.done =>
        /\ hres.err = hreq.herr
        /\ (hres.updated \/ hres.event) =>
               /\ ~hreq.herr.nil
               /\ ErrorToSentence(hreq.herr.msg) # hreq.build.status.message
        /\ ~hres.updated => (hres.obj = hreq.build /\ hres.pers = hreq.build.status)
        /\ hres.obj.status.reason # hreq.build.status.reason =>
               (hreq.build.status.reason = "" /\ hres.obj.status.reason = "Error")
        /\ hres.updated =>
               /\ hres.obj.status.message = ErrorToSentence(hreq.herr.msg)
               /\ hres.obj.status.reason # ""
               /\ hres.pers = IF hreq.upd = "ok" THEN hres.obj.status
                              ELSE hreq.build.status

\* HandleBuild failed on a build without reason, the update of the status
\* message failed too, and Handle returned HandleBuild's error.
C24_Witness ==
    /\ hres.done
    /\ hreq.herr = ErrPlain
    /\ hreq.upd = "Error"
    /\ hres.updated /\ hres.event
    /\ hreq.build.status.reason = "" /\ hres.obj.status.reason = "Error"
    /\ hres.err = ErrPlain


\* ---------------------------------------------------------------- C25
\* Admit came as far as the Associate loop.
AssociateTried == ares.done /\ ares.associates > 0

\* The re-read that fails comes before the Associate call that succeeds.
RegetFailsFirst == areq.regetFailsAt # 0 /\ areq.regetFailsAt <= areq.assocFails

\* C25: for a CREATE in a namespace that is not terminating, Admit calls
\* Associate at most 10 times; it admits the request with the first call that
\* succeeds and calls Associate no more; it has re-read the namespace before
\* each attempt after the first; it forbids the request when the 10th attempt
\* fails or when a re-read fails.
C25_AssociateRetry ==
    (ares.done /\ areq.operation = "CREATE" /\ areq.phase # "Terminating") =>
        /\ ares.associates <= numRetries
        /\ ares.associates = 0 => ares.regets = 0
        /\ AssociateTried =>
               /\ ares.err = "nil" =>
                      /\ ares.associates = areq.assocFails + 1
                      /\ ares.regets = ares.associates - 1
               /\ (areq.assocFails < numRetries /\ ~RegetFailsFirst) => ares.err = "nil"
               /\ (areq.assocFails >= numRetries /\ ~RegetFailsFirst) =>
                      /\ ares.err = "forbidden"
                      /\ ares.associates = numRetries
                      /\ ares.regets = numRetries - 1
               /\ (RegetFailsFirst /\ areq.regetFailsAt < numRetries) =>
                      /\ ares.err = "forbidden"
                      /\ ares.associates = areq.regetFailsAt
                      /\ ares.regets = areq.regetFailsAt

\* Nine Associate calls failed, each followed by a re-read that worked, and
\* the tenth succeeded: the request is admitted.
C25_Witness ==
    /\ ares.done /\ areq.operation = "CREATE" /\ areq.phase = "Active"
    /\ areq.assocFails = numRetries - 1
    /\ ares.associates = numRetries /\ ares.regets = numRetries - 1
    /\ ares.err = "nil"


\* ---------------------------------------------------------------- C26
RECURSIVE SumErrs(_)
SumErrs(l) == IF l = <<>> THEN 0 ELSE Head(l).errs + SumErrs(Tail(l))

\* C26: Run goes through the diagnostics in list order, one after the other,
\* and returns only after the last; a diagnostic that panics adds exactly one
\* to the error count and the ones after it are still run; a diagnostic whose
\* CanRun is false is skipped without Check being called and counts nothing;
\* Run reports failed iff the final error count is greater than 0.
C26_DiagnosticsRun ==
    /\ Len(dlog) = dpos /\ dpos <= Len(dlist)
    /\ \A i \in DOMAIN dlog :
           /\ Panics(dlist[i]) => dlog[i].errs = 1
           /\ dlist[i].canRun = "no" => (~dlog[i].checked /\ dlog[i].errs = 0 /\ dlog[i].warns = 0)
           /\ (dlist[i].canRun = "yes" /\ ~Panics(dlist[i])) =>
                  (dlog[i].checked /\ dlog[i].errs = dlist[i].errors)
    /\ dcount.errorCount = SumErrs(dlog)
    /\ dret.done =>
           /\ dpos = Len(dlist)
           /\ dret.errorCount = dcount.errorCount
           /\ dret.failed <=> dret.errorCount > 0

\* Run has returned failed with an error count of one: the first diagnostic
\* panicked in Check, the second was run after it and found nothing.
C26_Witness ==
    /\ dret.done /\ dret.failed /\ dret.errorCount = 1
    /\ Len(dlist) = 2
    /\ dlist[1].check = "panics"
    /\ dlog[2].checked /\ dlog[2].errs = 0

====
